---------------------------- MODULE Spec2Model ----------------------------
(***************************************************************************)
(* Conversational sale-extraction engine of the backend: the validator of  *)
(* the oracle's reply (AIService.extractBusinessData), the sale writer     *)
(* (AIService.saveSaleData / processSaleWithPricing), the price ledger     *)
(* (autoCreateProduct / updateProductPrice), the catalog lookups of        *)
(* config/database.js and the payment-method matcher.                      *)
(*                                                                         *)
(* Every store call (one awaited supabase request) is one atomic step; a   *)
(* turn is a sequence of such steps, so turns of different conversations   *)
(* interleave between awaits.  Strings are tuples of one-character         *)
(* strings, so that case folding, trimming and containment are computed.   *)
(* Money and quantities are integers.                                      *)
(***************************************************************************)
EXTENDS Integers, Sequences, FiniteSets, TLC

\* ------------------------------------------------------------------ bounds
MaxItems    == 1   \* line items in one oracle reply
MaxQty      == 1   \* largest quantity the oracle declares
MaxPrice    == 2   \* largest unit price the oracle declares
MaxTotal    == 2   \* largest total the oracle declares
MaxPayments == 1   \* payment entries in one oracle reply
MaxAmount   == 2   \* largest payment amount the oracle declares
MaxTurns    == 2   \* turns started in one behaviour
MaxFailures == 1   \* store requests that fail in one behaviour
MaxClock    == 3   \* last instant of the wall clock
MaxRequests == 2   \* HTTP requests received in one behaviour
MaxOrdinal  == 2   \* ordinals a reply of the user carries
MaxMethods  == 3   \* rows of a payment-method catalog
DayLen      == 2   \* instants per calendar day

\* null / undefined.  Identifiers are positive, so 0 is the null identifier;
\* the code tests names by truthiness only, so null and "" are the empty text.
NULL == 0

\* ----------------------------------------------------------------- strings
UpperChars == <<"A","B","C","D","E","F","G","H","I","J","K","L","M",
                "N","O","P","Q","R","S","T","U","V","W","X","Y","Z">>
LowerChars == <<"a","b","c","d","e","f","g","h","i","j","k","l","m",
                "n","o","p","q","r","s","t","u","v","w","x","y","z">>

ToLowerChar(c) ==
    IF \E i \in 1..Len(UpperChars) : UpperChars[i] = c
    THEN LowerChars[CHOOSE i \in 1..Len(UpperChars) : UpperChars[i] = c]
    ELSE c

\* String.prototype.toLowerCase
toLowerCase(s) == [i \in 1..Len(s) |-> ToLowerChar(s[i])]

IsSpace(c) == c = " "

RECURSIVE TrimStart(_)
TrimStart(s) == IF s # <<>> /\ IsSpace(Head(s)) THEN TrimStart(Tail(s)) ELSE s

RECURSIVE TrimEnd(_)
TrimEnd(s) ==
    IF s # <<>> /\ IsSpace(s[Len(s)]) THEN TrimEnd(SubSeq(s, 1, Len(s) - 1)) ELSE s

\* String.prototype.trim
trim(s) == TrimEnd(TrimStart(s))

\* String.prototype.includes
includes(hay, needle) ==
    \E i \in 0..(Len(hay) - Len(needle)) : SubSeq(hay, i + 1, i + Len(needle)) = needle

\* Array.prototype.find: hits[i] tells whether the i-th element satisfies the
\* predicate; the index of the first that does, or 0 when there is none
Find(hits) ==
    IF \E i \in 1..Len(hits) : hits[i]
    THEN CHOOSE i \in 1..Len(hits) : hits[i] /\ \A j \in 1..(i - 1) : ~hits[j]
    ELSE 0

\* Array.prototype.reduce((a, b) => a + b, 0) over a sequence of numbers
RECURSIVE SumSeq(_)
SumSeq(seq) == IF seq = <<>> THEN 0 ELSE Head(seq) + SumSeq(Tail(seq))

SeqsUpTo(S, n) == UNION {[1..k -> S] : k \in 0..n}

Max(S) == IF S = {} THEN 0 ELSE CHOOSE x \in S : \A y \in S : y <= x

\* ------------------------------------------------------- payment methods
sEfectivo    == <<"E","f","e","c","t","i","v","o">>
sMercadoPago == <<"M","e","r","c","a","d","o","P","a","g","o">>
sBilletera   == <<"B","i","l","l","e","t","e","r","a"," ","D","i","g","i","t","a","l">>

\* dbHelpers.getPaymentMethods: the Metodos_pago catalog, ordered by nombre.
\* No code of the backend writes this table.
Metodos_pago ==
    << [metodo_id |-> 1, nombre |-> sBilletera],
       [metodo_id |-> 2, nombre |-> sEfectivo],
       [metodo_id |-> 3, nombre |-> sMercadoPago] >>

\* the `variations` object literal of matchPaymentMethod
variations ==
    << << <<"m","p">>, <<"m","e","r","c","a","d","o","p","a","g","o">> >>,
       << <<"m","e","r","c","a","d","o"," ","p","a","g","o">>,
          <<"m","e","r","c","a","d","o","p","a","g","o">> >>,
       << <<"e","f","e","c","t","i","v","o">>, <<"e","f","e","c","t","i","v","o">> >>,
       << <<"c","a","s","h">>, <<"e","f","e","c","t","i","v","o">> >>,
       << <<"t","a","r","j","e","t","a">>, <<"t","a","r","j","e","t","a">> >>,
       << <<"c","a","r","d">>, <<"t","a","r","j","e","t","a">> >>,
       << <<"d","e","b","i","t","o">>, <<"d","e'","b","i","t","o">> >>,
       << <<"c","r","e","d","i","t","o">>, <<"c","r","e'","d","i","t","o">> >>,
       << <<"q","r">>,
          <<"b","i","l","l","e","t","e","r","a"," ","d","i","g","i","t","a","l">> >>,
       << <<"c","o","d","i","g","o"," ","q","r">>,
          <<"b","i","l","l","e","t","e","r","a"," ","d","i","g","i","t","a","l">> >>,
       << <<"b","i","l","l","e","t","e","r","a">>,
          <<"b","i","l","l","e","t","e","r","a"," ","d","i","g","i","t","a","l">> >>,
       << <<"b","i","l","l","e","t","e","r","a"," ","d","i","g","i","t","a","l">>,
          <<"b","i","l","l","e","t","e","r","a"," ","d","i","g","i","t","a","l">> >>,
       << <<"t","r","a","n","s","f","e","r","e","n","c","i","a">>,
          <<"t","r","a","n","s","f","e","r","e","n","c","i","a">> >> ,
       << <<"t","r","a","n","s","f","e","r">>,
          <<"t","r","a","n","s","f","e","r","e","n","c","i","a">> >> >>

\* variations[normalizedInput]: the index of the entry, or 0 (undefined)
Variation(normalizedInput) ==
    IF \E i \in 1..Len(variations) : variations[i][1] = normalizedInput
    THEN CHOOSE i \in 1..Len(variations) : variations[i][1] = normalizedInput
    ELSE 0

\* AIService.matchPaymentMethod: the metodo_id matched, or NULL
matchPaymentMethod(methodName, availableMethods) ==
    IF methodName = <<>> THEN NULL
    ELSE
      LET normalizedInput == trim(toLowerCase(methodName))
          direct(m)  == toLowerCase(m.nombre) = normalizedInput
          v          == Variation(normalizedInput)
          var(m)     == includes(toLowerCase(m.nombre), variations[v][2])
          partial(m) == \/ includes(toLowerCase(m.nombre), normalizedInput)
                        \/ includes(normalizedInput, toLowerCase(m.nombre))
          each(P(_))   == [i \in 1..Len(availableMethods) |-> P(availableMethods[i])]
          directMatch  == Find(each(direct))
          varMatch     == IF v = 0 THEN 0 ELSE Find(each(var))
          partialMatch == Find(each(partial))
      IN  IF directMatch # 0 THEN availableMethods[directMatch].metodo_id
          ELSE IF varMatch # 0 THEN availableMethods[varMatch].metodo_id
          ELSE IF partialMatch # 0 THEN availableMethods[partialMatch].metodo_id
          ELSE NULL


\* ------------------------------------------------------------ input domain
sPan   == <<"P","a","n">>
span   == <<"p","a","n">>
sQr    == <<"q","r">>
sBtc   == <<"b","t","c">>

Turns == {1, 2}                 \* conversations (each with its own context)
Users == {101, 102}             \* tenants (usuario_id)

ProductNames == {sPan, span, <<>>}
MethodNames  == {sQr, sBtc}

\* one element of sale.items of the extraction schema
Items == [product_name : ProductNames, quantity : 0..MaxQty, unit_price : 0..MaxPrice]

\* one element of sale.payment_methods of the extraction schema
Payments == [method_name : MethodNames, method_id : {NULL}, amount : 1..MaxAmount]

NoSale == [items |-> <<>>, total |-> 0, customer |-> <<>>, payment_methods |-> <<>>]

\* the "sale" object of the extraction schema
Sales == [items : SeqsUpTo(Items, MaxItems), total : 0..MaxTotal,
          customer : {<<>>}, payment_methods : SeqsUpTo(Payments, MaxPayments)]

\* What the first oracle call of a turn produces: the call fails ("throw"),
\* the content is not JSON ("unparsable"), is the JSON null ("null"), asks
\* to cancel a sale ("cancel"), declares nothing ("none"), an expense
\* ("expense") or a sale ("sale").
Replies ==
    [kind : {"throw", "unparsable", "null", "none", "expense"},
     saleId : {NULL}, sale : {NoSale}]
    \cup [kind : {"cancel"}, saleId : 0..MaxTurns, sale : {NoSale}]
    \cup [kind : {"sale"}, saleId : {NULL}, sale : Sales]

NoReply == [kind |-> "", saleId |-> NULL, sale |-> NoSale]

\* what the user said: a delete/cancel command (deleteRegex matches) or not,
\* and the sale id the text carries (NULL when it carries none)
Inputs == [delete : BOOLEAN, saleId : 0..MaxTurns]

\* ------------------------------------------------------------------- state
VARIABLES
    Ventas,            \* table Ventas: set of sale headers
    Detalle_ventas,    \* table Detalle_ventas: sequence of line items
    Pagos_venta,       \* table Pagos_venta: sequence of payment rows
    Productos,         \* table Productos: sequence of products
    Precios_producto,  \* table Precios_producto: sequence of price entries
    Clientes,          \* table Clientes: sequence of customers
    turn,              \* turn[t]: the in-flight call of processConversation
    lastSaleId,        \* lastSaleId[t]: conversationContext.lastSaleId
    clock,             \* the wall clock (Date.now)
    call,              \* call[t]: the in-flight call of createSaleWithDetails
    req,               \* req[t]: the in-flight HTTP request of the sales routes
    started,           \* turns and calls started so far
    requests,          \* HTTP requests received so far
    failures,          \* store / oracle requests failed so far
    matching           \* the last call of matchPaymentMethod and what it returned

tables == <<Ventas, Detalle_ventas, Pagos_venta, Productos, Precios_producto>>
vars   == <<Ventas, Detalle_ventas, Pagos_venta, Productos, Precios_producto,
            Clientes, matching, turn, lastSaleId, clock, started, call, req, requests, failures>>

\* the extraction result of a turn
NoResult == [extracted |-> FALSE, type |-> "", reason |-> "", error |-> FALSE,
             savedSale |-> NULL]

IdleTurn ==
    [pc |-> "idle", userId |-> NULL, input |-> [delete |-> FALSE, saleId |-> NULL],
     reply |-> NoReply, items |-> <<>>, payments |-> <<>>, saleId |-> NULL,
     clienteId |-> NULL, fecha |-> NULL, producto |-> NULL, target |-> NULL,
     via |-> "", result |-> NoResult, oracleCalls |-> 0,
     before |-> <<{}, <<>>, <<>>, <<>>, <<>>>>, sessionBefore |-> NULL,
     ordinal |-> NULL, pending |-> <<>>, precios |-> <<>>]

\* turn[t].before and turn[t].sessionBefore are no state of the program:
\* they record the tables and conversationContext.lastSaleId as they were
\* when the turn started, for the properties that compare them; likewise
\* turn[t].precios records Precios_producto as getCurrentPrice read it,
\* while updateProductPrice runs

\* the sale record a caller hands to createSaleWithDetails
NoSaleData ==
    [venta_id |-> NULL, usuario_id |-> NULL, total_venta |-> 0, fecha_hora |-> NULL,
     orden_diario |-> NULL, incompleta |-> FALSE, anulada |-> FALSE,
     cliente_id |-> NULL, notas |-> <<>>]

IdleCall == [pc |-> "idle", saleData |-> NoSaleData, details |-> <<>>, payments |-> <<>>]

\* the body of a request that supplies no field
NoBody == [f \in {} |-> NULL]

\* an HTTP request to the sales routes and its response (status 0: none yet)
IdleReq ==
    [pc |-> "idle", route |-> "", userId |-> NULL, saleId |-> NULL, body |-> NoBody,
     status |-> 0, code |-> "", error |-> "", date |-> NULL, rows |-> <<>>]

\* no call of matchPaymentMethod yet
NoMatching == [methodName |-> <<>>, availableMethods |-> <<>>, metodo_id |-> NULL,
               called |-> FALSE]

\* uuidv4(): an identifier no row, no turn and no call holds
NewVentaId ==
    1 + Max({v.venta_id : v \in Ventas} \cup {turn[t].saleId : t \in Turns}
            \cup {call[t].saleData.venta_id : t \in Turns})

NewProductoId ==
    1 + Max({Productos[i].producto_id : i \in 1..Len(Productos)})

\* the key the store gives a new Clientes row (gen_random_uuid())
NewClienteId ==
    1 + Max({Clientes[i].cliente_id : i \in 1..Len(Clientes)})

\* a request to the store or to the oracle succeeds, or (within the bound) fails
Outcomes == IF failures < MaxFailures THEN {TRUE, FALSE} ELSE {TRUE}

Fail(ok) == failures' = IF ok THEN failures ELSE failures + 1

Day(t) == t \div DayLen

Init ==
    /\ Ventas = {}
    /\ Detalle_ventas = <<>>
    /\ Pagos_venta = <<>>
    /\ Productos = <<>>
    /\ Precios_producto = <<>>
    /\ Clientes = <<>>
    /\ turn = [t \in Turns |-> IdleTurn]
    /\ call = [t \in Turns |-> IdleCall]
    /\ req = [t \in Turns |-> IdleReq]
    /\ requests = 0
    /\ matching = NoMatching
    /\ lastSaleId = [t \in Turns |-> NULL]
    /\ clock = 1
    /\ started = 0
    /\ failures = 0


\* ------------------------------------------------------- processConversation
Final == {"idle", "done", "error"}

\* the outer catch of processConversation: the turn throws
Throw(t) == turn' = [turn EXCEPT ![t].pc = "error"]

\* processConversation up to its first await on the oracle or on a cancel:
\* the four context reads, then detectDeleteSale on the input
StartTurn(t, u, in) ==
    /\ turn[t].pc \in Final
    /\ started < MaxTurns
    /\ started' = started + 1
    /\ \E ok \in Outcomes :
         /\ Fail(ok)
         /\ LET targetSaleId == IF in.saleId # NULL THEN in.saleId ELSE lastSaleId[t]
                fresh == [IdleTurn EXCEPT !.userId = u, !.input = in,
                                          !.before = tables,
                                          !.sessionBefore = lastSaleId[t]]
            IN  turn' = [turn EXCEPT ![t] =
                    IF ~ok THEN [fresh EXCEPT !.pc = "error"]
                    ELSE IF in.delete /\ targetSaleId # NULL
                      THEN [fresh EXCEPT !.pc = "cancel_fetch", !.via = "command",
                                         !.target = targetSaleId]
                    ELSE [fresh EXCEPT !.pc = "extract"]]
    /\ UNCHANGED <<tables, Clientes, matching, lastSaleId, clock, call, req, requests>>

\* The same start of processConversation when the input is a reply that
\* carries the ordinal k ("la 2"), with or without a delete verb, and the
\* context the caller supplies carries pendingDeletion.indexToSaleId =
\* pending (<<>>: none).  processConversation reads neither: the text holds
\* no sale id, so detectDeleteSale yields { saleId: null } or null.
StartReply(t, u, k, pending, del) ==
    /\ turn[t].pc \in Final
    /\ started < MaxTurns
    /\ started' = started + 1
    /\ \E ok \in Outcomes :
         /\ Fail(ok)
         /\ LET targetSaleId == lastSaleId[t]
                fresh == [IdleTurn EXCEPT !.userId = u,
                                          !.input = [delete |-> del, saleId |-> NULL],
                                          !.before = tables,
                                          !.sessionBefore = lastSaleId[t],
                                          !.ordinal = k, !.pending = pending]
            IN  turn' = [turn EXCEPT ![t] =
                    IF ~ok THEN [fresh EXCEPT !.pc = "error"]
                    ELSE IF del /\ targetSaleId # NULL
                      THEN [fresh EXCEPT !.pc = "cancel_fetch", !.via = "command",
                                         !.target = targetSaleId]
                    ELSE [fresh EXCEPT !.pc = "extract"]]
    /\ UNCHANGED <<tables, Clientes, matching, lastSaleId, clock, call, req, requests>>

\* The class declares cancelSale twice; the later declaration,
\* cancelSale(userId, saleId), is the method.  The delete-command path calls
\* it as cancelSale(targetSaleId, authenticatedUserId), the oracle path as
\* cancelSale(authenticatedUserId, saleIdToCancel).
CancelUserArg(t) == IF turn[t].via = "command" THEN turn[t].target ELSE turn[t].userId
CancelSaleArg(t) == IF turn[t].via = "command" THEN turn[t].userId ELSE turn[t].target

\* a turn that clears the session's last sale before it cancels
CancelFetchClearing(t) ==
    /\ turn[t].pc = "cancel_fetch"
    /\ \E ok \in Outcomes :
         /\ Fail(ok)
         /\ LET rows == {v \in Ventas : /\ v.venta_id = CancelSaleArg(t)
                                        /\ v.usuario_id = CancelUserArg(t)}
            IN  IF ok /\ Cardinality(rows) = 1 /\ \A v \in rows : ~v.anulada
                THEN turn' = [turn EXCEPT ![t].pc = "cancel_update"]
                ELSE Throw(t)
    /\ lastSaleId' = [lastSaleId EXCEPT ![t] = NULL]
    /\ UNCHANGED <<tables, Clientes, matching, clock, started, call, req, requests>>

\* dbHelpers.cancelSale, first request: the ownership check
CancelFetch(t) ==
    /\ turn[t].pc = "cancel_fetch"
    /\ \E ok \in Outcomes :
         /\ Fail(ok)
         /\ LET rows == {v \in Ventas : /\ v.venta_id = CancelSaleArg(t)
                                        /\ v.usuario_id = CancelUserArg(t)}
            IN  IF ok /\ Cardinality(rows) = 1 /\ \A v \in rows : ~v.anulada
                THEN turn' = [turn EXCEPT ![t].pc = "cancel_update"]
                ELSE Throw(t)
    /\ UNCHANGED <<tables, Clientes, matching, lastSaleId, clock, started, call, req, requests>>

\* dbHelpers.cancelSale, second request: the update, and the rest of the
\* turn up to generateResponse
CancelUpdate(t) ==
    /\ turn[t].pc = "cancel_update"
    /\ \E ok \in Outcomes :
         /\ Fail(ok)
         /\ LET rows == {v \in Ventas : v.venta_id = CancelSaleArg(t)}
            IN  IF ok /\ Cardinality(rows) = 1
                THEN /\ Ventas' = (Ventas \ rows) \cup
                                    {[v EXCEPT !.anulada = TRUE] : v \in rows}
                     /\ turn' = [turn EXCEPT ![t] = [@ EXCEPT
                            !.pc = "respond",
                            !.result = [NoResult EXCEPT
                                !.extracted = TRUE,
                                !.type = IF turn[t].via = "command"
                                         THEN "sale_deletion" ELSE "cancel_sale"]]]
                     /\ lastSaleId' = [lastSaleId EXCEPT ![t] =
                            IF turn[t].via = "command" THEN turn[t].target ELSE NULL]
                ELSE /\ Throw(t)
                     /\ UNCHANGED <<Ventas, lastSaleId>>
    /\ UNCHANGED <<Detalle_ventas, Pagos_venta, Productos, Precios_producto,
                   Clientes, matching, clock, started, call, req, requests>>

\* ------------------------------------------------------ extractBusinessData
InvalidItem(item) ==
    \/ item.quantity <= 0
    \/ item.unit_price <= 0
    \/ item.product_name = <<>>

\* a validation that looks at the total before it looks at the items
ValidateTotalFirst(sale) ==
    IF sale.total <= 0 THEN "Invalid total amount"
    ELSE IF Len(sale.items) = 0 THEN "No items in sale"
    ELSE IF \E i \in 1..Len(sale.items) : InvalidItem(sale.items[i])
      THEN "Invalid item data"
    ELSE ""

\* the validation of extractBusinessData: the reason of the rejection, or ""
Validate(sale) ==
    IF Len(sale.items) = 0 THEN "No items in sale"
    ELSE IF \E i \in 1..Len(sale.items) : InvalidItem(sale.items[i])
      THEN "Invalid item data"
    ELSE IF sale.total <= 0 THEN "Invalid total amount"
    ELSE ""

\* the catch of extractBusinessData: { extracted: false, error }
ExtractionError(t) ==
    turn' = [turn EXCEPT ![t] = [@ EXCEPT
        !.pc = "respond", !.items = <<>>, !.payments = <<>>, !.producto = NULL,
        !.result = [NoResult EXCEPT !.error = TRUE]]]

\* saveSaleData after the customer is settled: the sale record is prepared
\* (fecha_hora = now) and getPaymentMethods is awaited
ToMethods(r, clienteId) ==
    [r EXCEPT !.pc = "methods", !.clienteId = clienteId, !.fecha = clock]

\* The oracle's reply to the extraction prompt arrives: JSON.parse, the
\* validation, and either the return of extractBusinessData (continuing in
\* processConversation up to its next await) or the start of saveSaleData.
\* AfterReply is the turn after that step.
AfterReply(t, r) ==
    LET me == [turn[t] EXCEPT !.reply = r, !.oracleCalls = @ + 1]
        saleIdToCancel == IF r.saleId # NULL THEN r.saleId ELSE lastSaleId[t]
        reason == Validate(r.sale)
    IN  CASE r.kind \in {"throw", "unparsable", "null"} ->
               [me EXCEPT !.pc = "respond",
                          !.result = [NoResult EXCEPT !.error = TRUE]]
          [] r.kind = "cancel" /\ saleIdToCancel # NULL ->
               [me EXCEPT !.pc = "cancel_fetch", !.via = "oracle",
                          !.target = saleIdToCancel]
          [] r.kind = "cancel" /\ saleIdToCancel = NULL ->
               [me EXCEPT !.pc = "respond",
                          !.result = [NoResult EXCEPT !.extracted = TRUE,
                                         !.type = "cancel_sale_error"]]
          [] r.kind = "sale" /\ reason # "" ->
               [me EXCEPT !.pc = "respond",
                          !.result = [NoResult EXCEPT !.reason = reason]]
          [] r.kind = "sale" /\ reason = "" ->
               LET s == [me EXCEPT !.saleId = NewVentaId, !.items = r.sale.items]
               IN  IF r.sale.customer # <<>>
                   THEN [s EXCEPT !.pc = "cust_search"]
                   ELSE ToMethods(s, NULL)
          [] r.kind = "expense" ->
               [me EXCEPT !.pc = "respond",
                          !.result = [NoResult EXCEPT !.extracted = TRUE,
                                         !.type = "expense"]]
          [] OTHER ->
               [me EXCEPT !.pc = "respond"]

\* a validator that writes the header before it validates
OracleReplyEager(t, r) ==
    /\ turn[t].pc = "extract"
    /\ turn' = [turn EXCEPT ![t] = AfterReply(t, r)]
    /\ Ventas' = IF r.kind = "sale" /\ Validate(r.sale) # ""
                 THEN Ventas \cup {[venta_id |-> NewVentaId, usuario_id |-> turn[t].userId,
                                    total_venta |-> r.sale.total, fecha_hora |-> clock,
                                    orden_diario |-> NULL, incompleta |-> FALSE,
                                    anulada |-> FALSE, cliente_id |-> NULL,
                                    notas |-> <<>>]}
                 ELSE Ventas
    /\ UNCHANGED <<Detalle_ventas, Pagos_venta, Productos, Precios_producto,
                   Clientes, matching, lastSaleId, clock, started, call, req, requests, failures>>

\* an extraction that asks the oracle again after a reply it cannot use
OracleReplyRetry(t, r) ==
    /\ turn[t].pc = "extract"
    /\ turn' = [turn EXCEPT ![t] =
            IF r.kind \in {"throw", "unparsable", "null"} /\ turn[t].oracleCalls = 0
            THEN [@ EXCEPT !.oracleCalls = @ + 1]
            ELSE AfterReply(t, r)]
    /\ UNCHANGED <<tables, Clientes, matching, lastSaleId, clock, started, call, req, requests, failures>>

OracleReply(t, r) ==
    /\ turn[t].pc = "extract"
    /\ turn' = [turn EXCEPT ![t] = AfterReply(t, r)]
    /\ UNCHANGED <<tables, Clientes, matching, lastSaleId, clock, started, call, req, requests, failures>>

\* generateResponse: the second oracle call; processConversation returns, or
\* throws when the call fails
Respond(t) ==
    /\ turn[t].pc = "respond"
    /\ \E ok \in Outcomes :
         /\ Fail(ok)
         /\ turn' = [turn EXCEPT ![t].pc = IF ok THEN "done" ELSE "error"]
    /\ UNCHANGED <<tables, Clientes, matching, lastSaleId, clock, started, call, req, requests>>

\* a string or null, which has no property of its own
Primitive(v) == [primitive |-> v]

\* What the object that processConversation returns says of the session.
\* The delete-command path returns { ..., lastSaleId:
\* conversationContext.lastSaleId } and no context; every other path returns
\* { ..., context: conversationContext.lastSaleId } and no lastSaleId.
Result(t) ==
    IF turn[t].via = "command"
    THEN [lastSaleId |-> Primitive(lastSaleId[t])]
    ELSE [context |-> Primitive(lastSaleId[t])]

\* obj.name as the caller reads it: the value of the property, or nothing
\* (undefined) when the value has no such property
Get(obj, name) == IF name \in DOMAIN obj THEN {obj[name]} ELSE {}

\* result.lastSaleId and result.context.lastSaleId of a turn that returned
ResultLastSaleId(t) == Get(Result(t), "lastSaleId")
ContextLastSaleId(t) ==
    UNION {Get(c, "lastSaleId") : c \in Get(Result(t), "context")}

\* result.context.pendingDeletion
ContextPendingDeletion(t) ==
    UNION {Get(c, "pendingDeletion") : c \in Get(Result(t), "context")}

\* result.context.messages
ContextMessages(t) ==
    UNION {Get(c, "messages") : c \in Get(Result(t), "context")}

\* result.context.lastSalesListShownAt
ContextListShownAt(t) ==
    UNION {Get(c, "lastSalesListShownAt") : c \in Get(Result(t), "context")}


\* -------------------------------------------------------------- saveSaleData
\* SQL LIKE on lower-cased text: % matches any run, _ any one character
RECURSIVE Like(_, _)
Like(text, pat) ==
    IF pat = <<>> THEN text = <<>>
    ELSE IF Head(pat) = "%"
      THEN Like(text, Tail(pat)) \/ (text # <<>> /\ Like(Tail(text), pat))
    ELSE /\ text # <<>>
         /\ (Head(pat) = "_" \/ Head(pat) = Head(text))
         /\ Like(Tail(text), Tail(pat))

\* PostgREST .ilike(column, pattern)
ilike(text, pat) == Like(toLowerCase(text), toLowerCase(pat))

\* dbHelpers.getOrCreateCustomer, first request: the case-insensitive search
\* (.single() yields a row only when exactly one row matches); a failure is
\* caught by saveSaleData, which goes on without a customer
CustomerSearch(t) ==
    /\ turn[t].pc = "cust_search"
    /\ \E ok \in Outcomes :
         /\ Fail(ok)
         /\ LET hits == {i \in 1..Len(Clientes) :
                           /\ Clientes[i].usuario_id = turn[t].userId
                           /\ ilike(Clientes[i].nombre, turn[t].reply.sale.customer)}
            IN  turn' = [turn EXCEPT ![t] =
                    IF ~ok THEN ToMethods(@, NULL)
                    ELSE IF Cardinality(hits) = 1
                      THEN ToMethods(@, Clientes[CHOOSE i \in hits : TRUE].cliente_id)
                    ELSE [@ EXCEPT !.pc = "cust_insert"]]
    /\ UNCHANGED <<tables, Clientes, matching, lastSaleId, clock, started, call, req, requests>>

\* dbHelpers.getOrCreateCustomer, second request: the insert
CustomerInsert(t) ==
    /\ turn[t].pc = "cust_insert"
    /\ \E ok \in Outcomes :
         /\ Fail(ok)
         /\ IF ok
            THEN /\ Clientes' = Append(Clientes,
                        [cliente_id |-> NewClienteId, usuario_id |-> turn[t].userId,
                         nombre |-> turn[t].reply.sale.customer])
                 /\ turn' = [turn EXCEPT ![t] = ToMethods(@, NewClienteId)]
            ELSE /\ turn' = [turn EXCEPT ![t] = ToMethods(@, NULL)]
                 /\ UNCHANGED Clientes
    /\ UNCHANGED <<tables, matching, lastSaleId, clock, started, call, req, requests>>

\* the payment rows saveSaleData prepares: payment_methods.map(...)
PreparePayments(saleData, saleId, paymentMethods) ==
    [i \in 1..Len(saleData.payment_methods) |->
        LET payment == saleData.payment_methods[i]
        IN  [venta_id  |-> saleId,
             metodo_id |-> IF payment.method_id = NULL /\ payment.method_name # <<>>
                           THEN matchPaymentMethod(payment.method_name, paymentMethods)
                           ELSE payment.method_id,
             monto     |-> payment.amount]]

\* saveSaleData: getPaymentMethods returns, the payment rows are prepared
LoadMethods(t) ==
    /\ turn[t].pc = "methods"
    /\ \E ok \in Outcomes :
         /\ Fail(ok)
         /\ IF ok
            THEN turn' = [turn EXCEPT ![t] = [@ EXCEPT
                    !.pc = "ins_venta",
                    !.payments = PreparePayments(turn[t].reply.sale, turn[t].saleId,
                                                 Metodos_pago)]]
            ELSE ExtractionError(t)
    /\ UNCHANGED <<tables, Clientes, matching, lastSaleId, clock, started, call, req, requests>>

\* the sale record saveSaleData inserts (it sets no orden_diario)
SaleRecord(t) ==
    [venta_id |-> turn[t].saleId, usuario_id |-> turn[t].userId,
     total_venta |-> turn[t].reply.sale.total, fecha_hora |-> turn[t].fecha,
     orden_diario |-> NULL, incompleta |-> FALSE, anulada |-> FALSE,
     cliente_id |-> turn[t].clienteId, notas |-> <<>>]

\* saveSaleData: "Create sale first", the insert into Ventas
InsertVenta(t) ==
    /\ turn[t].pc = "ins_venta"
    /\ \E ok \in Outcomes :
         /\ Fail(ok)
         /\ IF ok
            THEN /\ Ventas' = Ventas \cup {SaleRecord(t)}
                 /\ turn' = [turn EXCEPT ![t].pc = "get_product"]
            ELSE /\ ExtractionError(t)
                 /\ UNCHANGED Ventas
    /\ UNCHANGED <<Detalle_ventas, Pagos_venta, Productos, Precios_producto,
                   Clientes, matching, lastSaleId, clock, started, call, req, requests>>


\* ---------------------------------------------------- processSaleWithPricing
\* the line item being processed
Item(t) == Head(turn[t].items)

\* the filter of dbHelpers.getProductByName: .eq('usuario_id', userId)
\* .eq('nombre', productName)
ProductMatches(p, userId, productName) ==
    p.usuario_id = userId /\ p.nombre = productName

\* dbHelpers.getProductByName: the producto_id of the single matching row, or
\* NULL when .single() finds none or several (PGRST116)
getProductByName(userId, productName) ==
    LET hits == {i \in 1..Len(Productos) :
                    ProductMatches(Productos[i], userId, productName)}
    IN  IF Cardinality(hits) = 1
        THEN Productos[CHOOSE i \in hits : TRUE].producto_id
        ELSE NULL

\* the open price entries of a product: vigente_hasta is null
OpenPrices(productoId) ==
    {i \in 1..Len(Precios_producto) :
        /\ Precios_producto[i].producto_id = productoId
        /\ Precios_producto[i].vigente_hasta = NULL}

\* processSaleWithPricing, step 1: the product lookup
GetProduct(t) ==
    /\ turn[t].pc = "get_product"
    /\ \E ok \in Outcomes :
         /\ Fail(ok)
         /\ LET producto == getProductByName(turn[t].userId, Item(t).product_name)
            IN  IF ~ok THEN ExtractionError(t)
                ELSE IF producto = NULL
                  THEN turn' = [turn EXCEPT ![t].pc = "ins_product"]
                ELSE turn' = [turn EXCEPT ![t] =
                        [@ EXCEPT !.pc = "get_price", !.producto = producto]]
    /\ UNCHANGED <<tables, Clientes, matching, lastSaleId, clock, started, call, req, requests>>

\* autoCreateProduct, first request: the insert into Productos; when it
\* fails autoCreateProduct returns null and processSaleWithPricing throws
InsertProduct(t) ==
    /\ turn[t].pc = "ins_product"
    /\ \E ok \in Outcomes :
         /\ Fail(ok)
         /\ IF ok
            THEN /\ Productos' = Append(Productos,
                        [producto_id |-> NewProductoId, usuario_id |-> turn[t].userId,
                         nombre |-> Item(t).product_name, auto_creado |-> TRUE])
                 /\ turn' = [turn EXCEPT ![t] =
                        [@ EXCEPT !.pc = "ins_price0", !.producto = NewProductoId]]
            ELSE /\ ExtractionError(t)
                 /\ UNCHANGED Productos
    /\ UNCHANGED <<Ventas, Detalle_ventas, Pagos_venta, Precios_producto,
                   Clientes, matching, lastSaleId, clock, started, call, req, requests>>

\* a new open price entry
PriceEntry(productoId, precio) ==
    [producto_id |-> productoId, precio_unitario |-> precio,
     vigente_desde |-> clock, vigente_hasta |-> NULL]

\* autoCreateProduct, second request: the initial price entry; a failure is
\* logged and the product id is returned all the same
InsertInitialPrice(t) ==
    /\ turn[t].pc = "ins_price0"
    /\ \E ok \in Outcomes :
         /\ Fail(ok)
         /\ Precios_producto' =
                IF ok THEN Append(Precios_producto,
                                  PriceEntry(turn[t].producto, Item(t).unit_price))
                ELSE Precios_producto
    /\ turn' = [turn EXCEPT ![t].pc = "ins_detalle"]
    /\ UNCHANGED <<Ventas, Detalle_ventas, Pagos_venta, Productos,
                   Clientes, matching, lastSaleId, clock, started, call, req, requests>>

\* processSaleWithPricing, existing product: dbHelpers.getCurrentPrice, which
\* throws unless exactly one entry of the product is open (.single()), then
\* the comparison precioActual !== precioVenta
GetPrice(t) ==
    /\ turn[t].pc = "get_price"
    /\ \E ok \in Outcomes :
         /\ Fail(ok)
         /\ LET open == OpenPrices(turn[t].producto)
            IN  IF ~ok \/ Cardinality(open) # 1 THEN ExtractionError(t)
                ELSE LET precioActual ==
                            Precios_producto[CHOOSE i \in open : TRUE].precio_unitario
                     IN  turn' = [turn EXCEPT ![t] =
                            IF precioActual # Item(t).unit_price
                            THEN [@ EXCEPT !.pc = "close_price",
                                           !.precios = Precios_producto]
                            ELSE [@ EXCEPT !.pc = "ins_detalle"]]
    /\ UNCHANGED <<tables, Clientes, matching, lastSaleId, clock, started, call, req, requests>>

\* updateProductPrice, first request: close the current price period; when
\* it fails updateProductPrice returns false and the sale goes on
ClosePrice(t) ==
    /\ turn[t].pc = "close_price"
    /\ \E ok \in Outcomes :
         /\ Fail(ok)
         /\ IF ok
            THEN /\ Precios_producto' =
                        [i \in 1..Len(Precios_producto) |->
                            IF i \in OpenPrices(turn[t].producto)
                            THEN [Precios_producto[i] EXCEPT !.vigente_hasta = clock]
                            ELSE Precios_producto[i]]
                 /\ turn' = [turn EXCEPT ![t].pc = "ins_price"]
            ELSE /\ turn' = [turn EXCEPT ![t] =
                        [@ EXCEPT !.pc = "ins_detalle", !.precios = <<>>]]
                 /\ UNCHANGED Precios_producto
    /\ UNCHANGED <<Ventas, Detalle_ventas, Pagos_venta, Productos,
                   Clientes, matching, lastSaleId, clock, started, call, req, requests>>

\* updateProductPrice, second request: the new price record; when it fails
\* updateProductPrice returns false and the sale goes on
InsertPrice(t) ==
    /\ turn[t].pc = "ins_price"
    /\ \E ok \in Outcomes :
         /\ Fail(ok)
         /\ Precios_producto' =
                IF ok THEN Append(Precios_producto,
                                  PriceEntry(turn[t].producto, Item(t).unit_price))
                ELSE Precios_producto
    /\ turn' = [turn EXCEPT ![t] =
            [@ EXCEPT !.pc = "ins_detalle", !.precios = <<>>]]
    /\ UNCHANGED <<Ventas, Detalle_ventas, Pagos_venta, Productos,
                   Clientes, matching, lastSaleId, clock, started, call, req, requests>>

\* extractBusinessData returns { extracted: true, type: 'sale', savedSale }
\* and processConversation records the sale in the context
Saved(r) ==
    [r EXCEPT !.pc = "respond", !.items = <<>>, !.producto = NULL,
              !.result = [NoResult EXCEPT !.extracted = TRUE, !.type = "sale",
                                          !.savedSale = r.saleId]]

\* processSaleWithPricing, last request: the sale detail; then the next
\* item, the payments, or the end of saveSaleData
InsertDetalle(t) ==
    /\ turn[t].pc = "ins_detalle"
    /\ \E ok \in Outcomes :
         /\ Fail(ok)
         /\ IF ok
            THEN /\ Detalle_ventas' = Append(Detalle_ventas,
                        [venta_id |-> turn[t].saleId, producto_id |-> turn[t].producto,
                         precio_unitario |-> Item(t).unit_price,
                         cantidad |-> Item(t).quantity,
                         subtotal |-> Item(t).unit_price * Item(t).quantity,
                         producto_alt |-> Item(t).product_name])
                 /\ LET rest == [turn[t] EXCEPT !.items = Tail(@), !.producto = NULL]
                    IN  IF rest.items # <<>>
                        THEN /\ turn' = [turn EXCEPT ![t] =
                                    [rest EXCEPT !.pc = "get_product"]]
                             /\ UNCHANGED lastSaleId
                        ELSE IF Len(rest.payments) > 0
                        THEN /\ turn' = [turn EXCEPT ![t] =
                                    [rest EXCEPT !.pc = "ins_pagos"]]
                             /\ UNCHANGED lastSaleId
                        ELSE /\ turn' = [turn EXCEPT ![t] = Saved(rest)]
                             /\ lastSaleId' = [lastSaleId EXCEPT ![t] = rest.saleId]
            ELSE /\ ExtractionError(t)
                 /\ UNCHANGED <<Detalle_ventas, lastSaleId>>
    /\ UNCHANGED <<Ventas, Pagos_venta, Productos, Precios_producto,
                   Clientes, matching, clock, started, call, req, requests>>

\* saveSaleData: "Create payments", one insert of all the payment rows
InsertPagos(t) ==
    /\ turn[t].pc = "ins_pagos"
    /\ \E ok \in Outcomes :
         /\ Fail(ok)
         /\ IF ok
            THEN /\ Pagos_venta' = Pagos_venta \o turn[t].payments
                 /\ turn' = [turn EXCEPT ![t] = Saved(@)]
                 /\ lastSaleId' = [lastSaleId EXCEPT ![t] = turn[t].saleId]
            ELSE /\ ExtractionError(t)
                 /\ UNCHANGED <<Pagos_venta, lastSaleId>>
    /\ UNCHANGED <<Ventas, Detalle_ventas, Productos, Precios_producto,
                   Clientes, matching, clock, started, call, req, requests>>

\* ------------------------------------------- dbHelpers.createSaleWithDetails
\* What the query for the last daily order returns: the orden_diario of the
\* tenant's sales of the calendar day of saleData.fecha_hora, ordered by
\* orden_diario descending, limit 1.  The store sorts nulls first in
\* descending order.
LastOrderData(saleData) ==
    LET rows == {v \in Ventas : /\ v.usuario_id = saleData.usuario_id
                                /\ Day(v.fecha_hora) = Day(saleData.fecha_hora)}
    IN  IF rows = {} THEN <<>>
        ELSE IF \E v \in rows : v.orden_diario = NULL THEN <<NULL>>
        ELSE <<Max({v.orden_diario : v \in rows})>>

\* nextOrder; null + 1 is 1
NextOrder(lastOrderData) ==
    (IF Len(lastOrderData) > 0 THEN lastOrderData[1] ELSE 0) + 1

\* the catch of createSaleWithDetails: log and rethrow
Rethrow(t) == call' = [call EXCEPT ![t].pc = "error"]

\* a caller prepares a sale record (venta_id = uuidv4(), fecha_hora = now),
\* its details and its payments, and calls createSaleWithDetails
CreateSale(t, u, total, details, payments) ==
    /\ call[t].pc \in Final
    /\ started < MaxTurns
    /\ started' = started + 1
    /\ call' = [call EXCEPT ![t] =
            [pc |-> "last_order",
             saleData |-> [NoSaleData EXCEPT !.venta_id = NewVentaId,
                              !.usuario_id = u, !.total_venta = total,
                              !.fecha_hora = clock],
             details |-> details, payments |-> payments]]
    /\ UNCHANGED <<tables, Clientes, matching, turn, lastSaleId, clock, failures,
                   req, requests>>

\* createSaleWithDetails: "Determine daily order number for the sale"
LastOrder(t) ==
    /\ call[t].pc = "last_order"
    /\ \E ok \in Outcomes :
         /\ Fail(ok)
         /\ IF ok
            THEN call' = [call EXCEPT ![t] = [@ EXCEPT
                    !.pc = "ins_sale",
                    !.saleData.orden_diario =
                        NextOrder(LastOrderData(call[t].saleData))]]
            ELSE Rethrow(t)
    /\ UNCHANGED <<tables, Clientes, matching, turn, lastSaleId, clock, started,
                   req, requests>>

\* where createSaleWithDetails goes after the header, after the details
AfterSale(c) ==
    IF Len(c.details) > 0 THEN "ins_details"
    ELSE IF Len(c.payments) > 0 THEN "ins_payments" ELSE "done"

AfterDetails(c) == IF Len(c.payments) > 0 THEN "ins_payments" ELSE "done"

\* createSaleWithDetails: the insert into Ventas
InsertSale(t) ==
    /\ call[t].pc = "ins_sale"
    /\ \E ok \in Outcomes :
         /\ Fail(ok)
         /\ IF ok
            THEN /\ Ventas' = Ventas \cup {call[t].saleData}
                 /\ call' = [call EXCEPT ![t].pc = AfterSale(call[t])]
            ELSE /\ Rethrow(t)
                 /\ UNCHANGED Ventas
    /\ UNCHANGED <<Detalle_ventas, Pagos_venta, Productos, Precios_producto,
                   Clientes, matching, turn, lastSaleId, clock, started,
                   req, requests>>

\* createSaleWithDetails: "Insert sale details", one insert of all the rows
InsertDetails(t) ==
    /\ call[t].pc = "ins_details"
    /\ \E ok \in Outcomes :
         /\ Fail(ok)
         /\ IF ok
            THEN /\ Detalle_ventas' = Detalle_ventas \o
                        [i \in 1..Len(call[t].details) |->
                            [call[t].details[i] EXCEPT
                                !.venta_id = call[t].saleData.venta_id]]
                 /\ call' = [call EXCEPT ![t].pc = AfterDetails(call[t])]
            ELSE /\ Rethrow(t)
                 /\ UNCHANGED Detalle_ventas
    /\ UNCHANGED <<Ventas, Pagos_venta, Productos, Precios_producto,
                   Clientes, matching, turn, lastSaleId, clock, started,
                   req, requests>>

\* createSaleWithDetails: "Insert payments", one insert of all the rows
InsertPayments(t) ==
    /\ call[t].pc = "ins_payments"
    /\ \E ok \in Outcomes :
         /\ Fail(ok)
         /\ IF ok
            THEN /\ Pagos_venta' = Pagos_venta \o
                        [i \in 1..Len(call[t].payments) |->
                            [call[t].payments[i] EXCEPT
                                !.venta_id = call[t].saleData.venta_id]]
                 /\ call' = [call EXCEPT ![t].pc = "done"]
            ELSE /\ Rethrow(t)
                 /\ UNCHANGED Pagos_venta
    /\ UNCHANGED <<Ventas, Detalle_ventas, Productos, Precios_producto,
                   Clientes, matching, turn, lastSaleId, clock, started,
                   req, requests>>

\* time passes
Tick ==
    /\ clock < MaxClock
    /\ clock' = clock + 1
    /\ UNCHANGED <<tables, Clientes, matching, turn, call, lastSaleId, started, failures,
                   req, requests>>

\* ------------------------------------------------------------- sales routes
\* Two versions of the sales router are in the repository: one cancels with
\* dbHelpers.cancelSale and edits in the handler (DELETE /:saleId,
\* PUT /:saleId), the other deletes and edits through the sales service
\* (DELETE /:venta_id with deleteSale, PUT /:venta_id with updateSale).
Routes == {"DELETE /:saleId", "PUT /:saleId", "DELETE /:venta_id", "PUT /:venta_id"}

\* the routes that edit a sale or cancel it
EditOrCancel == {"PUT /:saleId", "PUT /:venta_id", "DELETE /:saleId"}

\* the request bodies: the fields a client supplies
Bodies ==
    {NoBody, [total_venta |-> MaxTotal], [cliente_id |-> 1], [notas |-> <<"n">>],
     [anulada |-> FALSE]}

\* res.status(status).json({ error }); code is the code of the error thrown
\* by dbHelpers.cancelSale, when one was
Answer(t, status, code, error) ==
    req' = [req EXCEPT ![t] = [@ EXCEPT !.pc = "done", !.status = status,
                                        !.code = code, !.error = error]]

\* a filter on the sale id alone
AnyOwnerSales(userId, saleId) == {v \in Ventas : v.venta_id = saleId}

\* .eq('venta_id', saleId).eq('usuario_id', userId)
OwnSales(userId, saleId) ==
    {v \in Ventas : v.venta_id = saleId /\ v.usuario_id = userId}

\* .eq('venta_id', saleId)
SalesById(saleId) == {v \in Ventas : v.venta_id = saleId}

\* the row with the supplied fields replaced: .update(updateData)
Updated(row, updateData) ==
    [f \in DOMAIN row |-> IF f \in DOMAIN updateData THEN updateData[f] ELSE row[f]]

\* PUT /:saleId, "Prepare update data - only include provided fields"
UpdateData(body) ==
    [f \in DOMAIN body \cap {"total_venta", "cliente_id", "notas"} |-> body[f]]

\* An authenticated request of tenant u arrives and its handler runs up to
\* its first store request.  PUT /:venta_id answers a body without fields
\* at once ('No hay campos para actualizar').
Receive(t, route, u, saleId, body) ==
    /\ req[t].pc \in Final
    /\ requests < MaxRequests
    /\ requests' = requests + 1
    /\ LET r == [IdleReq EXCEPT !.route = route, !.userId = u, !.saleId = saleId,
                                !.body = IF route \in {"PUT /:saleId", "PUT /:venta_id"}
                                         THEN body ELSE NoBody]
       IN  req' = [req EXCEPT ![t] =
              CASE route = "DELETE /:saleId"   -> [r EXCEPT !.pc = "cancel_fetch"]
                [] route = "PUT /:saleId"      -> [r EXCEPT !.pc = "put_fetch"]
                [] route = "DELETE /:venta_id" -> [r EXCEPT !.pc = "delete_details"]
                [] route = "PUT /:venta_id"    ->
                     IF DOMAIN body = {}
                     THEN [r EXCEPT !.pc = "done", !.status = 400,
                                    !.error = "No hay campos para actualizar"]
                     ELSE [r EXCEPT !.pc = "update_sale"]]
    /\ UNCHANGED <<tables, Clientes, matching, turn, call, lastSaleId, clock, started, failures>>

\* an ownership check that does not look at the voided flag
RouteCancelFetchAnyState(t) ==
    /\ req[t].pc = "cancel_fetch"
    /\ \E ok \in Outcomes :
         /\ Fail(ok)
         /\ LET rows == OwnSales(req[t].userId, req[t].saleId)
            IN  IF ~ok THEN Answer(t, 500, "", "Failed to cancel sale")
                ELSE IF Cardinality(rows) # 1
                  THEN Answer(t, 404, "NOT_FOUND", "Sale not found")
                ELSE req' = [req EXCEPT ![t].pc = "cancel_update"]
    /\ UNCHANGED <<tables, Clientes, matching, turn, call, lastSaleId, clock, started, requests>>

\* DELETE /:saleId, dbHelpers.cancelSale, first request: "Verify sale
\* ownership"; the route answers NOT_FOUND and ALREADY_CANCELLED alike
RouteCancelFetch(t) ==
    /\ req[t].pc = "cancel_fetch"
    /\ \E ok \in Outcomes :
         /\ Fail(ok)
         /\ LET rows == OwnSales(req[t].userId, req[t].saleId)
            IN  IF ~ok THEN Answer(t, 500, "", "Failed to cancel sale")
                ELSE IF Cardinality(rows) # 1
                  THEN Answer(t, 404, "NOT_FOUND", "Sale not found")
                ELSE IF \E v \in rows : v.anulada
                  THEN Answer(t, 404, "ALREADY_CANCELLED", "Sale not found")
                ELSE req' = [req EXCEPT ![t].pc = "cancel_update"]
    /\ UNCHANGED <<tables, Clientes, matching, turn, call, lastSaleId, clock, started, requests>>

\* DELETE /:saleId, dbHelpers.cancelSale, second request: the update
RouteCancelUpdate(t) ==
    /\ req[t].pc = "cancel_update"
    /\ \E ok \in Outcomes :
         /\ Fail(ok)
         /\ LET rows == SalesById(req[t].saleId)
            IN  IF ok /\ Cardinality(rows) = 1
                THEN /\ Ventas' = (Ventas \ rows) \cup
                                    {[v EXCEPT !.anulada = TRUE] : v \in rows}
                     /\ Answer(t, 200, "", "")
                ELSE /\ Answer(t, 500, "", "Failed to cancel sale")
                     /\ UNCHANGED Ventas
    /\ UNCHANGED <<Detalle_ventas, Pagos_venta, Productos, Precios_producto,
                   Clientes, matching, turn, call, lastSaleId, clock, started, requests>>

\* PUT /:saleId after the sale and the client are checked: the check of the
\* prepared update data
AfterChecks(r) ==
    IF DOMAIN UpdateData(r.body) = {}
    THEN [r EXCEPT !.pc = "done", !.status = 400,
                   !.error = "No fields provided to update"]
    ELSE [r EXCEPT !.pc = "put_update"]

\* PUT /:saleId, first request: "First check if sale exists and belongs to
\* user"
PutFetch(t) ==
    /\ req[t].pc = "put_fetch"
    /\ \E ok \in Outcomes :
         /\ Fail(ok)
         /\ LET rows == OwnSales(req[t].userId, req[t].saleId)
                body == req[t].body
            IN  IF ~ok THEN Answer(t, 500, "", "Failed to update sale")
                ELSE IF Cardinality(rows) # 1
                  THEN Answer(t, 404, "", "Sale not found")
                ELSE IF \E v \in rows : v.anulada
                  THEN Answer(t, 400, "", "Cannot edit a cancelled sale")
                ELSE IF "cliente_id" \in DOMAIN body /\ body.cliente_id # NULL
                  THEN req' = [req EXCEPT ![t].pc = "put_client"]
                ELSE req' = [req EXCEPT ![t] = AfterChecks(@)]
    /\ UNCHANGED <<tables, Clientes, matching, turn, call, lastSaleId, clock, started, requests>>

\* PUT /:saleId, second request: "Verify client belongs to user"
PutClient(t) ==
    /\ req[t].pc = "put_client"
    /\ \E ok \in Outcomes :
         /\ Fail(ok)
         /\ LET hits == {i \in 1..Len(Clientes) :
                           /\ Clientes[i].cliente_id = req[t].body.cliente_id
                           /\ Clientes[i].usuario_id = req[t].userId}
            IN  IF ok /\ Cardinality(hits) = 1
                THEN req' = [req EXCEPT ![t] = AfterChecks(@)]
                ELSE Answer(t, 400, "", "Client not found or does not belong to user")
    /\ UNCHANGED <<tables, Clientes, matching, turn, call, lastSaleId, clock, started, requests>>

\* PUT /:saleId, last request: "Update sale"
PutUpdate(t) ==
    /\ req[t].pc = "put_update"
    /\ \E ok \in Outcomes :
         /\ Fail(ok)
         /\ LET rows == SalesById(req[t].saleId)
            IN  IF ok /\ Cardinality(rows) = 1
                THEN /\ Ventas' = (Ventas \ rows) \cup
                            {Updated(v, UpdateData(req[t].body)) : v \in rows}
                     /\ Answer(t, 200, "", "")
                ELSE /\ Answer(t, 500, "", "Failed to update sale")
                     /\ UNCHANGED Ventas
    /\ UNCHANGED <<Detalle_ventas, Pagos_venta, Productos, Precios_producto,
                   Clientes, matching, turn, call, lastSaleId, clock, started, requests>>

\* PUT /:venta_id, updateSale: one update filtered by sale id and owner;
\* .single() reports PGRST116 when no row was updated
UpdateSale(t) ==
    /\ req[t].pc = "update_sale"
    /\ \E ok \in Outcomes :
         /\ Fail(ok)
         /\ LET rows == OwnSales(req[t].userId, req[t].saleId)
            IN  IF ok /\ Cardinality(rows) = 1
                THEN /\ Ventas' = (Ventas \ rows) \cup
                            {Updated(v, req[t].body) : v \in rows}
                     /\ Answer(t, 200, "", "")
                ELSE /\ IF ok THEN Answer(t, 404, "PGRST116", "Venta no encontrada")
                        ELSE Answer(t, 500, "", "Error al actualizar la venta")
                     /\ UNCHANGED Ventas
    /\ UNCHANGED <<Detalle_ventas, Pagos_venta, Productos, Precios_producto,
                   Clientes, matching, turn, call, lastSaleId, clock, started, requests>>

\* a query of the day's sales that leaves the voided ones in
getSalesByDateAnyState(userId, day) ==
    {v \in Ventas : v.usuario_id = userId /\ Day(v.fecha_hora) = day}

\* dbHelpers.getSalesByDate: the tenant's sales of the day that are not
\* voided
getSalesByDate(userId, day) ==
    {v \in Ventas : /\ v.usuario_id = userId
                    /\ ~v.anulada
                    /\ Day(v.fecha_hora) = day}

\* .order('fecha_hora', { ascending: true }): the orders in which the store
\* may return the rows (rows of equal fecha_hora come in any order)
OrderByFechaHora(sales) ==
    {seq \in [1..Cardinality(sales) -> sales] :
        /\ \A i, j \in 1..Cardinality(sales) : i # j => seq[i] # seq[j]
        /\ \A i, j \in 1..Cardinality(sales) :
              i < j => seq[i].fecha_hora <= seq[j].fecha_hora}

\* sales.map((sale, idx) => ({ ordinal: idx + 1, venta_id, ... }))
DayRows(sales) ==
    [idx \in 1..Len(sales) |-> [ordinal |-> idx, venta_id |-> sales[idx].venta_id]]

\* GET /day: the handler has one store request, getSalesByDate
ListDay(t, u, date) ==
    /\ req[t].pc \in Final
    /\ requests < MaxRequests
    /\ requests' = requests + 1
    /\ \E ok \in Outcomes :
         /\ Fail(ok)
         /\ LET r == [IdleReq EXCEPT !.pc = "done", !.route = "GET /day",
                                     !.userId = u, !.date = date]
            IN  IF ok
                THEN \E sales \in OrderByFechaHora(getSalesByDate(u, date)) :
                        req' = [req EXCEPT ![t] =
                                  [r EXCEPT !.status = 200, !.rows = DayRows(sales)]]
                ELSE req' = [req EXCEPT ![t] =
                                  [r EXCEPT !.status = 500,
                                            !.error = "Failed to fetch daily sales"]]
    /\ UNCHANGED <<tables, Clientes, matching, turn, call, lastSaleId, clock, started>>

\* the rows of a table that do not belong to the sale: .delete().eq('venta_id')
Without(rows, saleId) ==
    LET Other(r) == r.venta_id # saleId IN SelectSeq(rows, Other)

\* DELETE /:venta_id, deleteSale, first request: "Delete sale details
\* first"; a failure is logged and deleteSale goes on
DeleteDetails(t) ==
    /\ req[t].pc = "delete_details"
    /\ \E ok \in Outcomes :
         /\ Fail(ok)
         /\ Detalle_ventas' = IF ok THEN Without(Detalle_ventas, req[t].saleId)
                              ELSE Detalle_ventas
    /\ req' = [req EXCEPT ![t].pc = "delete_payments"]
    /\ UNCHANGED <<Ventas, Pagos_venta, Productos, Precios_producto,
                   Clientes, matching, turn, call, lastSaleId, clock, started, requests>>

\* DELETE /:venta_id, deleteSale, second request: "Delete sale payments"
DeletePayments(t) ==
    /\ req[t].pc = "delete_payments"
    /\ \E ok \in Outcomes :
         /\ Fail(ok)
         /\ Pagos_venta' = IF ok THEN Without(Pagos_venta, req[t].saleId)
                           ELSE Pagos_venta
    /\ req' = [req EXCEPT ![t].pc = "delete_sale"]
    /\ UNCHANGED <<Ventas, Detalle_ventas, Productos, Precios_producto,
                   Clientes, matching, turn, call, lastSaleId, clock, started, requests>>

\* DELETE /:venta_id, deleteSale, last request: "Delete the main sale record
\* with user ownership verification"
DeleteSale(t) ==
    /\ req[t].pc = "delete_sale"
    /\ \E ok \in Outcomes :
         /\ Fail(ok)
         /\ LET rows == OwnSales(req[t].userId, req[t].saleId)
            IN  IF ok /\ Cardinality(rows) = 1
                THEN /\ Ventas' = Ventas \ rows
                     /\ Answer(t, 204, "", "")
                ELSE /\ IF ok THEN Answer(t, 404, "PGRST116", "Venta no encontrada")
                        ELSE Answer(t, 500, "", "Error al eliminar la venta")
                     /\ UNCHANGED Ventas
    /\ UNCHANGED <<Detalle_ventas, Pagos_venta, Productos, Precios_producto,
                   Clientes, matching, turn, call, lastSaleId, clock, started, requests>>

\* ------------------------------------------------------------ specification
\* no call is in flight
Quiet == \A t \in Turns : turn[t].pc \in Final

Step(t) ==
    \/ CancelFetch(t) \/ CancelUpdate(t)
    \/ \E r \in Replies : OracleReply(t, r)
    \/ LoadMethods(t) \/ InsertVenta(t)
    \/ GetProduct(t) \/ InsertProduct(t) \/ InsertInitialPrice(t)
    \/ GetPrice(t) \/ ClosePrice(t) \/ InsertPrice(t)
    \/ InsertDetalle(t) \/ InsertPagos(t)
    \/ Respond(t)

\* what a user says that is no delete/cancel command
PlainInput == [delete |-> FALSE, saleId |-> NULL]

\* the turns of one conversation, one after the other
Next ==
    \/ \E u \in Users : Quiet /\ StartTurn(1, u, PlainInput)
    \/ Step(1)

Spec == Init /\ [][Next]_vars

\* the replies that declare one valid line of "Pan" and no payment
SaleReplies ==
    {r \in Replies : /\ r.kind = "sale"
                     /\ Validate(r.sale) = ""
                     /\ r.sale.items[1].product_name = sPan
                     /\ r.sale.payment_methods = <<>>}

\* the steps of a turn whose reply is one of SaleReplies
SaleStep(t) ==
    \/ \E r \in SaleReplies : OracleReply(t, r)
    \/ LoadMethods(t) \/ InsertVenta(t)
    \/ GetProduct(t) \/ InsertProduct(t) \/ InsertInitialPrice(t)
    \/ GetPrice(t) \/ ClosePrice(t) \/ InsertPrice(t)
    \/ InsertDetalle(t)
    \/ Respond(t)

\* The store after tenant 101 has sold one "Pan" at price 1 in an earlier
\* process: the header, its line, the auto-created product and its price.
InitConc ==
    /\ Ventas = {[NoSaleData EXCEPT !.venta_id = 1, !.usuario_id = 101,
                                    !.total_venta = 1, !.fecha_hora = 1]}
    /\ Detalle_ventas = <<[venta_id |-> 1, producto_id |-> 1, precio_unitario |-> 1,
                           cantidad |-> 1, subtotal |-> 1, producto_alt |-> sPan]>>
    /\ Pagos_venta = <<>>
    /\ Productos = <<[producto_id |-> 1, usuario_id |-> 101, nombre |-> sPan,
                      auto_creado |-> TRUE]>>
    /\ Precios_producto = <<[producto_id |-> 1, precio_unitario |-> 1,
                             vigente_desde |-> 1, vigente_hasta |-> NULL]>>
    /\ Clientes = <<>>
    /\ turn = [t \in Turns |-> IdleTurn]
    /\ call = [t \in Turns |-> IdleCall]
    /\ req = [t \in Turns |-> IdleReq]
    /\ requests = 0
    /\ matching = NoMatching
    /\ lastSaleId = [t \in Turns |-> NULL]
    /\ clock = 1
    /\ started = 0
    /\ failures = 0

\* two conversations whose turns interleave between their awaits
NextConc ==
    \/ \E t \in Turns, u \in Users : StartTurn(t, u, PlainInput)
    \/ \E t \in Turns : SaleStep(t)

SpecConc == InitConc /\ [][NextConc]_vars

\* the replies by which the oracle asks to cancel a sale
CancelReplies == {r \in Replies : r.kind = "cancel"}

\* One conversation over the store of InitConc: its turns come one after the
\* other with the same context object; the user says anything, a delete
\* command with or without an id included, and the oracle extracts a sale
\* or asks for a cancellation.
NextDel ==
    \/ \E u \in Users, in \in Inputs : Quiet /\ StartTurn(1, u, in)
    \/ SaleStep(1)
    \/ \E r \in CancelReplies : OracleReply(1, r)
    \/ CancelFetch(1) \/ CancelUpdate(1)

SpecDel == InitConc /\ [][NextDel]_vars

\* the pending maps a caller supplies: none, or one that lists sale 1
PendingMaps == {<<>>, <<1>>}

\* the oracle declares nothing
NoneReplies == {r \in Replies : r.kind = "none"}

\* One conversation over the store of InitConc in which the user also
\* replies with ordinals, the caller supplying a pending map or none.
NextPick ==
    \/ \E u \in Users : Quiet /\ StartTurn(1, u, PlainInput)
    \/ \E u \in Users, k \in 1..MaxOrdinal, p \in PendingMaps, del \in BOOLEAN :
          Quiet /\ StartReply(1, u, k, p, del)
    \/ SaleStep(1)
    \/ \E r \in CancelReplies \cup NoneReplies : OracleReply(1, r)
    \/ CancelFetch(1) \/ CancelUpdate(1)

SpecPick == InitConc /\ [][NextPick]_vars

\* phrases the oracle hands to matchPaymentMethod as method_name ("o'"
\* stands for the letter o with an acute accent)
sCodigoQr    == <<"c","o'","d","i","g","o"," ","q","r">>
sCodigoQrAscii == <<"c","o","d","i","g","o"," ","q","r">>
sMp          == <<"m","p">>
sMercadopago == <<"m","e","r","c","a","d","o","p","a","g","o">>
sefectivo    == <<"e","f","e","c","t","i","v","o">>
sCash        == <<"c","a","s","h">>
sQR          == <<" ","Q","R">>
sBlank       == <<" ">>
Phrases ==
    {sQr, sCodigoQr, sCodigoQrAscii, sMp, sMercadopago, sefectivo, sCash, sQR,
     sEfectivo, sBtc, sBlank, <<>>}

\* rows a Metodos_pago catalog may hold besides the three of Metodos_pago
sMP      == <<"M","P">>
sQrPagos == <<"Q","R"," ","P","a","g","o","s">>
MethodRows ==
    {Metodos_pago[i] : i \in 1..Len(Metodos_pago)}
    \cup {[metodo_id |-> 4, nombre |-> sMP], [metodo_id |-> 5, nombre |-> sQrPagos]}

\* the catalogs: up to MaxMethods distinct rows, in any order
Catalogs ==
    {c \in SeqsUpTo(MethodRows, MaxMethods) :
        \A i, j \in 1..Len(c) : i # j => c[i] # c[j]}

\* a call of matchPaymentMethod
Match(methodName, availableMethods) ==
    /\ matching' = [methodName |-> methodName, availableMethods |-> availableMethods,
                    metodo_id |-> matchPaymentMethod(methodName, availableMethods),
                    called |-> TRUE]
    /\ UNCHANGED <<tables, Clientes, turn, lastSaleId, clock, started, call, req,
                   requests, failures>>

\* matchPaymentMethod keeps no state: one call per behaviour shows them all
NextMatch ==
    /\ ~matching.called
    /\ \E methodName \in Phrases, availableMethods \in Catalogs :
          Match(methodName, availableMethods)

SpecMatch == Init /\ [][NextMatch]_vars

\* the details and the payments a caller hands to createSaleWithDetails
CallDetails(total) ==
    {<<>>, <<[venta_id |-> NULL, producto_id |-> NULL, precio_unitario |-> total,
              cantidad |-> 1, subtotal |-> total, producto_alt |-> sPan]>>}

CallPayments(total) ==
    {<<>>, <<[venta_id |-> NULL, metodo_id |-> 2, monto |-> total]>>}

CallQuiet == \A t \in Turns : call[t].pc \in Final

\* sales made by conversational turns and by createSaleWithDetails, one
\* after the other, over two calendar days
NextOrd ==
    \/ \E u \in Users : Quiet /\ CallQuiet /\ StartTurn(1, u, PlainInput)
    \/ SaleStep(1)
    \/ \E u \in Users, total \in 1..MaxTotal :
         \E details \in CallDetails(total), payments \in CallPayments(total) :
            Quiet /\ CallQuiet /\ CreateSale(1, u, total, details, payments)
    \/ LastOrder(1) \/ InsertSale(1) \/ InsertDetails(1) \/ InsertPayments(1)
    \/ Tick

SpecOrd == Init /\ [][NextOrd]_vars

\* callers of createSaleWithDetails whose calls interleave between awaits
NextCalls ==
    \/ \E t \in Turns, u \in Users, total \in 1..MaxTotal :
         \E details \in CallDetails(total), payments \in CallPayments(total) :
            CreateSale(t, u, total, details, payments)
    \/ \E t \in Turns : \/ LastOrder(t) \/ InsertSale(t)
                        \/ InsertDetails(t) \/ InsertPayments(t)
    \/ Tick

SpecCalls == Init /\ [][NextCalls]_vars

ReqQuiet == \A t \in Turns : req[t].pc \in Final

\* the steps of the handlers of the sales routes
RouteStep(t) ==
    \/ RouteCancelFetch(t) \/ RouteCancelUpdate(t)
    \/ PutFetch(t) \/ PutClient(t) \/ PutUpdate(t)
    \/ UpdateSale(t)
    \/ DeleteDetails(t) \/ DeletePayments(t) \/ DeleteSale(t)

\* sales with one line and one payment are created, and requests to the
\* sales routes are served, one after the other
NextRoutes ==
    \/ \E u \in Users :
         /\ CallQuiet /\ ReqQuiet
         /\ CreateSale(1, u, 1, <<[venta_id |-> NULL, producto_id |-> NULL,
                                   precio_unitario |-> 1, cantidad |-> 1,
                                   subtotal |-> 1, producto_alt |-> sPan]>>,
                                <<[venta_id |-> NULL, metodo_id |-> 2, monto |-> 1]>>)
    \/ LastOrder(1) \/ InsertSale(1) \/ InsertDetails(1) \/ InsertPayments(1)
    \/ \E route \in Routes, u \in Users, saleId \in 1..MaxTurns, body \in Bodies :
         CallQuiet /\ ReqQuiet /\ Receive(1, route, u, saleId, body)
    \/ RouteStep(1)

SpecRoutes == Init /\ [][NextRoutes]_vars

\* the steps of the handlers that edit or cancel
EditStep(t) ==
    \/ RouteCancelFetch(t) \/ RouteCancelUpdate(t)
    \/ PutFetch(t) \/ PutClient(t) \/ PutUpdate(t)
    \/ UpdateSale(t)

\* sales are created and edit and cancel requests are served, one after the
\* other; the answers of the last request of each slot are kept
NextProbe ==
    \/ \E u \in Users :
         /\ CallQuiet /\ ReqQuiet
         /\ CreateSale(1, u, 1, <<>>, <<>>)
    \/ LastOrder(1) \/ InsertSale(1)
    \/ \E t \in Turns, route \in EditOrCancel, u \in Users,
          saleId \in 1..MaxTurns, body \in Bodies :
         CallQuiet /\ ReqQuiet /\ Receive(t, route, u, saleId, body)
    \/ \E t \in Turns : EditStep(t)

SpecProbe == Init /\ [][NextProbe]_vars

\* the calendar days of the clock
Dates == Day(1)..Day(MaxClock)

\* The store after tenant 101 has recorded one sale without lines at instant
\* 1 through createSaleWithDetails in an earlier process.
InitDay ==
    /\ Ventas = {[NoSaleData EXCEPT !.venta_id = 1, !.usuario_id = 101,
                                    !.total_venta = 1, !.fecha_hora = 1,
                                    !.orden_diario = 1]}
    /\ Detalle_ventas = <<>>
    /\ Pagos_venta = <<>>
    /\ Productos = <<>>
    /\ Precios_producto = <<>>
    /\ Clientes = <<>>
    /\ turn = [t \in Turns |-> IdleTurn]
    /\ call = [t \in Turns |-> IdleCall]
    /\ req = [t \in Turns |-> IdleReq]
    /\ requests = 0
    /\ matching = NoMatching
    /\ lastSaleId = [t \in Turns |-> NULL]
    /\ clock = 1
    /\ started = 0
    /\ failures = 0

\* sales are created over two calendar days, cancelled with DELETE /:saleId
\* and listed with GET /day, one request after the other
NextDay ==
    \/ \E u \in Users : CallQuiet /\ ReqQuiet /\ CreateSale(1, u, 1, <<>>, <<>>)
    \/ LastOrder(1) \/ InsertSale(1)
    \/ Tick
    \/ \E u \in Users, saleId \in 1..MaxTurns :
         CallQuiet /\ ReqQuiet /\ Receive(1, "DELETE /:saleId", u, saleId, NoBody)
    \/ RouteCancelFetch(1) \/ RouteCancelUpdate(1)
    \/ \E u \in Users, date \in Dates : CallQuiet /\ ReqQuiet /\ ListDay(1, u, date)

SpecDay == InitDay /\ [][NextDay]_vars

\* the routes that edit a sale
EditRoutes == {"PUT /:saleId", "PUT /:venta_id"}

\* bodies of edit requests: those of Bodies, the other fields that
\* CAMPOS_PERMITIDOS names, and two fields at once
EditBodies ==
    Bodies \cup {[anulada |-> TRUE], [incompleta |-> TRUE], [fecha_hora |-> MaxClock],
                 [total_venta |-> MaxTotal, notas |-> <<"n">>]}

\* sales with one line and one payment are created and edit requests are
\* served, one after the other
NextEdit ==
    \/ \E u \in Users :
         /\ CallQuiet /\ ReqQuiet
         /\ CreateSale(1, u, 1, <<[venta_id |-> NULL, producto_id |-> NULL,
                                   precio_unitario |-> 1, cantidad |-> 1,
                                   subtotal |-> 1, producto_alt |-> sPan]>>,
                                <<[venta_id |-> NULL, metodo_id |-> 2, monto |-> 1]>>)
    \/ LastOrder(1) \/ InsertSale(1) \/ InsertDetails(1) \/ InsertPayments(1)
    \/ \E route \in EditRoutes, u \in Users, saleId \in 1..MaxTurns, body \in EditBodies :
         CallQuiet /\ ReqQuiet /\ Receive(1, route, u, saleId, body)
    \/ PutFetch(1) \/ PutClient(1) \/ PutUpdate(1)
    \/ UpdateSale(1)

SpecEdit == Init /\ [][NextEdit]_vars

\* ------------------------------------------------------------------ claims
\* sum of the line-item subtotals an oracle reply declares
DeclaredSubtotals(sale) ==
    SumSeq([i \in 1..Len(sale.items) |->
                sale.items[i].unit_price * sale.items[i].quantity])

\* sum of the payment amounts an oracle reply declares
DeclaredPayments(sale) ==
    SumSeq([i \in 1..Len(sale.payment_methods) |-> sale.payment_methods[i].amount])

\* the rows of a sale in the store
Headers(id) == {v \in Ventas : v.venta_id = id}
LineRows(id) == LET Of(r) == r.venta_id = id IN SelectSeq(Detalle_ventas, Of)
PayRows(id)  == LET Of(r) == r.venta_id = id IN SelectSeq(Pagos_venta, Of)

LineSum(id) == SumSeq([i \in 1..Len(LineRows(id)) |-> LineRows(id)[i].subtotal])
PaySum(id)  == SumSeq([i \in 1..Len(PayRows(id)) |-> PayRows(id)[i].monto])

\* the turn has passed the extraction step with a reply that declares a sale
Declared(t) == turn[t].pc \notin {"idle", "extract"} /\ turn[t].reply.kind = "sale"

\* the reply passes the checks extractBusinessData makes
PassesChecks(t) == Declared(t) /\ Validate(turn[t].reply.sale) = ""

\* C1: every sale that a turn accepted and persisted (saveSaleData returned
\* it) has line-item subtotals that sum to its header total and, when it has
\* payment rows, payment amounts that sum to its header total.
C1_AcceptedSalesReconcile ==
    \A t \in Turns : \A v \in Headers(turn[t].result.savedSale) :
        /\ LineSum(v.venta_id) = v.total_venta
        /\ Len(PayRows(v.venta_id)) > 0 => PaySum(v.venta_id) = v.total_venta

\* C2: a reply whose items are all valid and whose declared total differs
\* from the sum of its line-item subtotals is rejected with the reason
\* 'Invalid total amount' and saveSaleData is never invoked for it.
C2_TotalMismatchRejected ==
    \A t \in Turns :
        ( /\ Declared(t)
          /\ Len(turn[t].reply.sale.items) > 0
          /\ \A i \in 1..Len(turn[t].reply.sale.items) :
                 ~InvalidItem(turn[t].reply.sale.items[i])
          /\ turn[t].reply.sale.total # DeclaredSubtotals(turn[t].reply.sale) )
        => /\ turn[t].result.extracted = FALSE
           /\ turn[t].result.reason = "Invalid total amount"
           /\ turn[t].saleId = NULL

\* C3: a reply that passes every other check and declares payment methods
\* whose amounts do not sum to the declared total is rejected, and no sale,
\* line item or payment row is written for it.
C3_PaymentMismatchRejected ==
    \A t \in Turns :
        ( /\ PassesChecks(t)
          /\ turn[t].reply.sale.total = DeclaredSubtotals(turn[t].reply.sale)
          /\ Len(turn[t].reply.sale.payment_methods) > 0
          /\ DeclaredPayments(turn[t].reply.sale) # turn[t].reply.sale.total )
        => /\ turn[t].result.extracted = FALSE
           /\ Headers(turn[t].saleId) = {}
           /\ LineRows(turn[t].saleId) = <<>>
           /\ PayRows(turn[t].saleId) = <<>>

\* the extraction of the turn was rejected: a validation rule of
\* extractBusinessData failed, the reply was no JSON object, or the oracle
\* call failed
Rejected(t) ==
    /\ turn[t].pc \in {"respond", "done", "error"}
    /\ \/ turn[t].result.reason # ""
       \/ turn[t].reply.kind \in {"throw", "unparsable", "null"}

Completed(t) == turn[t].pc \in {"done", "error"}

\* C5: once a turn has completed, no header of the sale it wrote is in the
\* store without its complete set of line items and payments (one line row
\* per declared item, one payment row per declared payment).
C5_NoPartialSale ==
    \A t \in Turns :
        (Completed(t) /\ Headers(turn[t].saleId) # {})
        => /\ Len(LineRows(turn[t].saleId)) = Len(turn[t].reply.sale.items)
           /\ Len(PayRows(turn[t].saleId)) = Len(turn[t].reply.sale.payment_methods)

\* a declared payment carries no method id and its name matches no method
Unresolved(sale) ==
    \E i \in 1..Len(sale.payment_methods) :
        /\ sale.payment_methods[i].method_id = NULL
        /\ matchPaymentMethod(sale.payment_methods[i].method_name, Metodos_pago) = NULL

\* C6: no payment row has a null method reference, and a sale one of whose
\* declared payments resolves to no method has no header, line item or
\* payment row in the store.
C6_UnresolvedPaymentFailsSale ==
    /\ \A i \in 1..Len(Pagos_venta) : Pagos_venta[i].metodo_id # NULL
    /\ \A t \in Turns :
          (PassesChecks(t) /\ Unresolved(turn[t].reply.sale))
          => /\ Headers(turn[t].saleId) = {}
             /\ LineRows(turn[t].saleId) = <<>>
             /\ PayRows(turn[t].saleId) = <<>>

\* the products that have a price history
Priced == {Precios_producto[i].producto_id : i \in 1..Len(Precios_producto)}

\* C7: each product has at most one price-history entry whose end timestamp
\* (vigente_hasta) is null.
C7_AtMostOneOpenPrice ==
    \A p \in Priced : Cardinality(OpenPrices(p)) <= 1

\* C8: when no updateProductPrice call is between its two writes, every
\* product that has price history has exactly one open entry (so a failure
\* of the second write does not leave it with none).
C8_FailedUpdateKeepsOpenPrice ==
    (\A t \in Turns : turn[t].pc # "ins_price")
    => \A p \in Priced : Cardinality(OpenPrices(p)) = 1

\* C9: a tenant never has two product rows whose names are equal ignoring
\* letter case (the second resolution of such a name finds the first row).
C9_NoCaseDuplicateProduct ==
    \A i, j \in 1..Len(Productos) :
        ( /\ i # j
          /\ Productos[i].usuario_id = Productos[j].usuario_id )
        => toLowerCase(Productos[i].nombre) # toLowerCase(Productos[j].nombre)

\* the highest daily ordinal of a tenant's sales of a calendar day (0: none)
HighestOrdinal(usuarioId, fecha) ==
    Max({w.orden_diario : w \in {x \in Ventas : /\ x.usuario_id = usuarioId
                                                 /\ Day(x.fecha_hora) = Day(fecha)}})

\* C10: every step that adds a sale header gives it the daily ordinal one
\* plus the highest ordinal the tenant's sales of that calendar day had
\* before the step (1 when there was none).
C10_DailyOrdinal ==
    [][\A v \in Ventas' :
          (\A w \in Ventas : w.venta_id # v.venta_id)
          => v.orden_diario = 1 + HighestOrdinal(v.usuario_id, v.fecha_hora)]_vars

\* the sale headers of a tenant on a calendar day
SalesOfDay(usuarioId, day) ==
    {v \in Ventas : v.usuario_id = usuarioId /\ Day(v.fecha_hora) = day}

\* C11: for every tenant and calendar day, the daily ordinals of the sales
\* created are pairwise different and are exactly 1..N, N the number of the
\* tenant's sales of that day.
C11_OrdinalsAreSequence ==
    \A u \in Users : \A d \in 0..Day(MaxClock) :
        /\ \A v, w \in SalesOfDay(u, d) :
              v.venta_id # w.venta_id => v.orden_diario # w.orden_diario
        /\ {v.orden_diario : v \in SalesOfDay(u, d)}
              = 1..Cardinality(SalesOfDay(u, d))

\* the sale a request names is the requester's and is voided
OwnVoided(r) == \E v \in OwnSales(r.userId, r.saleId) : v.anulada

\* C12: a DELETE /:saleId answered 200 leaves its sale voided; a later
\* DELETE /:saleId of the requester's already voided sale writes nothing and,
\* when the store answers, ends with ALREADY_CANCELLED, surfaced as 404
\* 'Sale not found'.
C12_SecondCancelFails ==
    [][\A t \in Turns :
         /\ (req[t].pc = "cancel_update" /\ req'[t].status = 200)
            => \A v \in SalesById(req[t].saleId)' : v.anulada
         /\ (req[t].pc = "cancel_fetch" /\ req'[t] # req[t] /\ OwnVoided(req[t]))
            => /\ tables' = tables
               /\ req'[t].pc = "done"
               /\ req'[t].status \in {404, 500}
               /\ failures' = failures
                  => /\ req'[t].status = 404
                     /\ req'[t].code = "ALREADY_CANCELLED"
                     /\ req'[t].error = "Sale not found"]_vars

\* the second cancellation of a sale has been answered
C12_Witness ==
    \E t \in Turns :
        /\ req[t].pc = "done" /\ req[t].route = "DELETE /:saleId"
        /\ req[t].code = "ALREADY_CANCELLED" /\ req[t].status = 404
        /\ OwnVoided(req[t])

\* the handler of req[t] takes a step
Handles(t) == req[t].pc \notin Final /\ req'[t] # req[t]

\* C13: a step of a DELETE request on the sales routes removes no sale
\* header, line item or payment row; the only change it makes to the store
\* is setting the voided flag (anulada) of the sale it names.
C13_CancelOnlyVoids ==
    [][\A t \in Turns :
         (Handles(t) /\ req[t].route \in {"DELETE /:saleId", "DELETE /:venta_id"})
         => /\ Detalle_ventas' = Detalle_ventas
            /\ Pagos_venta' = Pagos_venta
            /\ <<Productos, Precios_producto, Clientes>>'
                  = <<Productos, Precios_producto, Clientes>>
            /\ \A v \in Ventas :
                  \/ v \in Ventas'
                  \/ /\ v.venta_id = req[t].saleId
                     /\ [v EXCEPT !.anulada = TRUE] \in Ventas'
            /\ Cardinality(Ventas') = Cardinality(Ventas)]_vars

\* C14: a step of an edit or cancel request changes no field of a sale that
\* is voided, and a request answered on the requester's voided sale is
\* answered with a rejection (a status of 400 or more).
C14_VoidedIsImmutable ==
    [][\A t \in Turns :
         (Handles(t) /\ req[t].route \in EditOrCancel)
         => /\ \A v \in Ventas : v.anulada => v \in Ventas'
            /\ (OwnVoided(req[t]) /\ req'[t].pc = "done")
               => req'[t].status >= 400]_vars

\* the request names a sale that is not the requester's: another tenant's,
\* or none
NotMine(r) == \A v \in Ventas : v.venta_id = r.saleId => v.usuario_id # r.userId

\* what the client sees of the answer
Outcome(r) == <<r.status, r.error>>

\* the store answered every request of the handler (no 500)
Served(r) == r.pc = "done" /\ r.status # 500

\* requests t1 and t2 were answered, have the same route and body, t1 names
\* another tenant's sale and t2 an id that no sale has
ForeignAndMissing(t1, t2) ==
    /\ Served(req[t1]) /\ Served(req[t2])
    /\ req[t1].route = req[t2].route /\ req[t1].body = req[t2].body
    /\ NotMine(req[t1]) /\ SalesById(req[t1].saleId) # {}
    /\ SalesById(req[t2].saleId) = {}

OthersRows(rows, usuarioId) ==
    LET Foreign(r) == \E v \in Ventas : v.venta_id = r.venta_id
                                        /\ v.usuario_id # usuarioId
    IN  SelectSeq(rows, Foreign)

\* a step on behalf of tenant usuarioId keeps the other tenants' sales
KeepsOthers(usuarioId) ==
    /\ \A v \in Ventas : v.usuario_id # usuarioId => v \in Ventas'
    /\ OthersRows(Detalle_ventas', usuarioId) = OthersRows(Detalle_ventas, usuarioId)
    /\ OthersRows(Pagos_venta', usuarioId) = OthersRows(Pagos_venta, usuarioId)

\* C16: no step of a request handler or of a sale creation running on
\* behalf of a tenant changes or removes a sale header, a line item or a
\* payment of a sale that belongs to another tenant.
C16_WritesStayInTenant ==
    [][\A t \in Turns :
         /\ Handles(t) => KeepsOthers(req[t].userId)
         /\ (call[t].pc \notin Final /\ call'[t] # call[t])
            => KeepsOthers(call[t].saleData.usuario_id)]_vars


\* the turn returned after saving a sale
SaleTurnDone(t) == turn[t].pc = "done" /\ turn[t].result.savedSale # NULL

\* C17: when a turn that accepted and persisted a sale returns, the session
\* context it returns (result.context) has lastSaleId equal to the id of the
\* sale just created, and has no pending disambiguation map.
C17_SaleTurnReturnsLastSaleId ==
    \A t \in Turns :
        SaleTurnDone(t)
        => /\ ContextLastSaleId(t) = {Primitive(turn[t].result.savedSale)}
           /\ ContextPendingDeletion(t) = {}


\* the turn is a delete command that found a sale id to cancel: the id in
\* the text, or else the session's lastSaleId
Command(t) == turn[t].via = "command"

\* the store-level cancellation is being invoked for the turn
Cancelling(t) == turn[t].pc \in {"cancel_fetch", "cancel_update"}

\* the session the turn returned has lastSaleId = null in both places
ReturnsNoLastSale(t) ==
    /\ ResultLastSaleId(t) = {Primitive(NULL)}
    /\ ContextLastSaleId(t) = {Primitive(NULL)}

\* C18: when the session has lastSaleId = X and the user issues a delete
\* command without an id, the store-level cancellation is invoked with
\* (tenant id, X) in that order, and the session the turn returns has
\* lastSaleId = null, both as result.lastSaleId and as
\* result.context.lastSaleId.
C18_DeleteLastSale ==
    \A t \in Turns :
        (Command(t) /\ turn[t].input.saleId = NULL)
        => /\ Cancelling(t) => /\ CancelUserArg(t) = turn[t].userId
                               /\ CancelSaleArg(t) = turn[t].target
                               /\ turn[t].target = turn[t].sessionBefore
           /\ turn[t].pc = "done" => ReturnsNoLastSale(t)


\* the turn is a delete command that names sale Y while the session's
\* lastSaleId is another sale X
NamesAnother(t) ==
    /\ Command(t)
    /\ turn[t].input.saleId # NULL
    /\ turn[t].sessionBefore \notin {NULL, turn[t].input.saleId}

\* the sales that are voided
Voided == {v.venta_id : v \in {w \in Ventas : w.anulada}}

\* C19: when a delete command names sale Y and the session has lastSaleId =
\* X with X # Y, the store-level cancellation is called with (tenant id, Y),
\* no step of the turn voids a sale other than Y, and the session the turn
\* returns has lastSaleId = null.
C19_DeleteNamedSale ==
    [][\A t \in Turns :
         NamesAnother(t)'
         => /\ Cancelling(t)' => /\ CancelUserArg(t)' = turn'[t].userId
                                 /\ CancelSaleArg(t)' = turn'[t].input.saleId
            /\ turn'[t] # turn[t] => Voided' \subseteq Voided \cup {turn'[t].input.saleId}
            /\ turn'[t].pc = "done" => ReturnsNoLastSale(t)']_vars


\* the turn is a delete command that names no sale, in a session that has
\* no lastSaleId
Ambiguous(t) ==
    /\ turn[t].pc # "idle"
    /\ turn[t].input.delete
    /\ turn[t].input.saleId = NULL
    /\ turn[t].sessionBefore = NULL

\* index lists the ids of these sales, each once, in ascending time order:
\* index[i] is the id of the i-th sale
IsOrdinalMap(index, sales) ==
    /\ index \in Seq({v.venta_id : v \in sales})
    /\ Len(index) = Cardinality(sales)
    /\ \A v \in sales : \E i \in 1..Len(index) : index[i] = v.venta_id
    /\ \A i, j \in 1..Len(index) :
         i < j => \A v, w \in sales :
                    (v.venta_id = index[i] /\ w.venta_id = index[j])
                    => v.fecha_hora <= w.fecha_hora

\* C20: a delete command that names no sale, in a session without
\* lastSaleId, cancels no sale in that turn; the turn returns a session whose
\* pendingDeletion.indexToSaleId maps each ordinal i to the id of the i-th
\* of today's non-voided sales in ascending time order, with the time the
\* list was shown.
C20_AmbiguousDeleteOffersList ==
    \A t \in Turns :
        Ambiguous(t)
        => /\ Voided = {v.venta_id : v \in {w \in turn[t].before[1] : w.anulada}}
           /\ turn[t].pc = "done"
              => /\ \E p \in ContextPendingDeletion(t) :
                      IsOrdinalMap(p.indexToSaleId,
                                   getSalesByDate(turn[t].userId, Day(clock)))
                 /\ ContextListShownAt(t) # {}


\* the sales that were voided when the turn started
VoidedBefore(t) == {v.venta_id : v \in {w \in turn[t].before[1] : w.anulada}}

\* the reply of the user carries an ordinal that is a key of the pending map
Picks(t) == turn[t].ordinal \in DOMAIN turn[t].pending

\* C21: when the session holds a pending ordinal map and the user replies
\* with an ordinal k that is a key of it, the store-level cancellation is
\* called with (tenant id, the sale the map assigns to k); when the turn
\* returns, exactly that sale has been voided by it and the returned session
\* has no pending map and lastSaleId = null.
C21_OrdinalCancelsMappedSale ==
    \A t \in Turns :
        Picks(t)
        => /\ Cancelling(t) => /\ CancelUserArg(t) = turn[t].userId
                               /\ CancelSaleArg(t) = turn[t].pending[turn[t].ordinal]
           /\ turn[t].pc = "done"
              => /\ Voided = VoidedBefore(t) \cup {turn[t].pending[turn[t].ordinal]}
                 /\ ReturnsNoLastSale(t)
                 /\ ContextPendingDeletion(t) = {}


\* the reply of the user carries an ordinal that no pending map resolves:
\* there is no map, or the ordinal is not one of its keys
PicksNothing(t) ==
    /\ turn[t].ordinal # NULL
    /\ turn[t].ordinal \notin DOMAIN turn[t].pending

\* the turn reports that it found no sale to cancel
ReportsNoTarget(t) == turn[t].result.type = "cancel_sale_error"

\* C22: an ordinal reply that is not a key of the pending map, or any
\* ordinal reply when there is no pending map, cancels no sale: no sale is
\* voided during the turn, and the turn that returns reports an error.
C22_InvalidOrdinalCancelsNothing ==
    \A t \in Turns :
        PicksNothing(t)
        => /\ Voided = VoidedBefore(t)
           /\ ~Cancelling(t)
           /\ turn[t].pc = "done" => ReportsNoTarget(t)

\* the delete command of the turn has nothing to resolve a target from: no
\* id in the text, no lastSaleId, no pending map
NoTarget(t) == Ambiguous(t) /\ turn[t].pending = <<>>

\* C23: a delete command for which no target can be resolved ends the turn
\* with a request for clarification and leaves the store as it was when the
\* turn started: no sale is voided and none is created.
C23_UnresolvedDeleteChangesNothing ==
    \A t \in Turns :
        NoTarget(t)
        => /\ tables = turn[t].before
           /\ turn[t].pc = "done" => ReportsNoTarget(t)


\* processConversation returned
Returned(t) == turn[t].pc = "done"

\* C24: a turn that returns, returns a context object that has a messages
\* array and a lastSaleId field, and a top-level lastSaleId equal to
\* context.lastSaleId; lastSaleId is null when the supplied context carried
\* none and the turn saved no sale.
C24_ReturnsContextObject ==
    \A t \in Turns :
        Returned(t)
        => /\ ContextMessages(t) # {}
           /\ ContextLastSaleId(t) # {}
           /\ ResultLastSaleId(t) = ContextLastSaleId(t)
           /\ (turn[t].sessionBefore = NULL /\ turn[t].result.savedSale = NULL)
              => ContextLastSaleId(t) = {Primitive(NULL)}

\* the turn returned and neither created nor voided a sale
LeftSalesAlone(t) == Returned(t) /\ Ventas = turn[t].before[1]

\* C25: a turn that neither creates nor cancels a sale returns a session
\* context whose lastSaleId is the one supplied.
C25_IdleTurnReturnsSameContext ==
    \A t \in Turns :
        LeftSalesAlone(t)
        => ContextLastSaleId(t) = {Primitive(turn[t].sessionBefore)}


\* the phrase of the call, lower-cased and trimmed
Phrase == trim(toLowerCase(matching.methodName))

\* the methods of the call's catalog whose row satisfies a rule
MethodsBy(rule) ==
    {matching.availableMethods[i].metodo_id :
        i \in {j \in 1..Len(matching.availableMethods) : rule[j]}}

\* rule 1: the name equals the phrase ignoring case
ExactMatches ==
    MethodsBy([i \in 1..Len(matching.availableMethods) |->
                 toLowerCase(matching.availableMethods[i].nombre) = Phrase])

\* rule 2: the synonym table maps the phrase to a name the method carries
SynonymMatches ==
    MethodsBy([i \in 1..Len(matching.availableMethods) |->
                 \E k \in 1..Len(variations) :
                    /\ variations[k][1] = Phrase
                    /\ includes(toLowerCase(matching.availableMethods[i].nombre),
                                variations[k][2])])

\* the catalog holds Billetera Digital, MercadoPago and Efectivo and no other
StandardCatalog ==
    {matching.availableMethods[i] : i \in 1..Len(matching.availableMethods)}
        = {Metodos_pago[i] : i \in 1..Len(Metodos_pago)}

\* the phrases of the claim and the method each is to resolve to
Examples ==
    {<<sQr, 1>>, <<sCodigoQr, 1>>, <<sMp, 3>>, <<sMercadopago, 3>>,
     <<sefectivo, 2>>, <<sCash, 2>>}

\* C26: matchPaymentMethod applies its rules in priority order: a method
\* whose name equals the phrase ignoring case is returned whatever the other
\* rules match; failing that, a synonym-table match is returned before any
\* substring match; and with Billetera Digital, MercadoPago and Efectivo
\* available, 'qr' and 'codigo qr' (accented) resolve to Billetera Digital,
\* 'mp' and 'mercadopago' to MercadoPago, 'efectivo' and 'cash' to Efectivo.
C26_MatchingPriority ==
    matching.called
    => /\ ExactMatches # {} => matching.metodo_id \in ExactMatches
       /\ (ExactMatches = {} /\ SynonymMatches # {})
          => matching.metodo_id \in SynonymMatches
       /\ StandardCatalog
          => \A e \in Examples :
                matching.methodName = e[1] => matching.metodo_id = e[2]


\* the extraction of the turn failed, was unparsable or was rejected
ExtractionFailed(r) ==
    \/ r.reply.kind \in {"throw", "unparsable", "null"}
    \/ r.reply.kind = "sale" /\ Validate(r.reply.sale) # ""

\* the sales created since the turn started
CreatedInTurn(t) ==
    {v.venta_id : v \in Ventas} \ {v.venta_id : v \in turn[t].before[1]}

\* the turn has called the extraction oracle at most once and created at
\* most one sale
AtMostOnce(t) ==
    turn[t].pc # "idle"
    => turn[t].oracleCalls <= 1 /\ Cardinality(CreatedInTurn(t)) <= 1

\* C27: within one turn the extraction oracle is called at most once and at
\* most one sale is created; the step that receives a failed, rejected or
\* unparsable extraction writes nothing and takes the turn to the generation
\* of its response, and no later step of the turn extracts again.
C27_ExtractionIsFinal ==
    [][\A t \in Turns :
         /\ AtMostOnce(t)'
         /\ (turn[t].pc = "extract" /\ turn'[t] # turn[t] /\ ExtractionFailed(turn'[t]))
            => /\ turn'[t].pc = "respond"
               /\ tables' = tables
         /\ (turn[t].pc # "extract" /\ turn[t].oracleCalls = 1)
            => (turn'[t].pc = "extract" => turn'[t].oracleCalls = 0)]_vars

\* a turn whose extraction failed has returned its response
C27_Witness ==
    \E t \in Turns :
        /\ turn[t].pc = "done"
        /\ turn[t].oracleCalls = 1
        /\ turn[t].reply.kind \in {"throw", "unparsable"}


\* the fields of a sale that an edit may change
Editable == {"total_venta", "cliente_id", "notas", "fecha_hora", "incompleta"}

\* the editable fields the request supplies, with their values
Supplied(r) == [f \in DOMAIN r.body \cap Editable |-> r.body[f]]

\* the step changed the supplied editable fields of sale saleId and nothing
\* else of any sale
ChangesOnly(saleId, fields) ==
    \E v \in SalesById(saleId) :
        Ventas' = (Ventas \ {v}) \cup {Updated(v, fields)}

\* C28: a step of an edit request changes no line item and no payment; a
\* request that supplies no editable field writes nothing and is not
\* answered with success; any other changes at most the supplied fields
\* among total, customer, note, date/time and completeness flag of the
\* target sale.
C28_EditChangesSuppliedFields ==
    [][\A t \in Turns :
         (Handles(t) /\ req[t].route \in EditRoutes)
         => /\ <<Detalle_ventas, Pagos_venta>>' = <<Detalle_ventas, Pagos_venta>>
            /\ DOMAIN Supplied(req[t]) = {}
               => Ventas' = Ventas /\ req'[t].status # 200
            /\ DOMAIN Supplied(req[t]) # {}
               => Ventas' = Ventas \/ ChangesOnly(req[t].saleId, Supplied(req[t]))]_vars


\* request t has just been answered with the listing of a day
Listed(t) ==
    /\ req[t].route = "GET /day"
    /\ req[t].status = 200

\* the sales the listing of request t is to contain
DueInListing(t) ==
    {v \in Ventas : /\ v.usuario_id = req[t].userId
                    /\ v.anulada = FALSE
                    /\ Day(v.fecha_hora) = req[t].date}

\* the time of the sale that row i of the listing names
TimeOfRow(t, i) ==
    LET v == CHOOSE w \in Ventas : w.venta_id = req[t].rows[i].venta_id
    IN  v.fecha_hora

\* the listing of request t is right for the store as it is
ListingIsRight(t) ==
    LET rows == req[t].rows
    IN  /\ {rows[i].venta_id : i \in 1..Len(rows)} = {v.venta_id : v \in DueInListing(t)}
        /\ Len(rows) = Cardinality(DueInListing(t))
        /\ \A i \in 1..Len(rows) : rows[i].ordinal = i
        /\ \A i, j \in 1..Len(rows) : i < j => TimeOfRow(t, i) <= TimeOfRow(t, j)

PriceChecked(t) ==
    /\ turn[t].pc \in {"get_price", "close_price", "ins_price"}
    /\ turn'[t].pc = "ins_detalle"

\* the price history as getCurrentPrice read it for this line
HistoryRead(t) ==
    IF turn[t].pc = "get_price" THEN Precios_producto ELSE turn[t].precios

\* the open entries of a product in a price history
OpenIn(history, productoId) ==
    {i \in 1..Len(history) :
        /\ history[i].producto_id = productoId
        /\ history[i].vigente_hasta = NULL}

\* the current price of a product in a price history
CurrentIn(history, productoId) ==
    history[CHOOSE i \in OpenIn(history, productoId) : TRUE].precio_unitario

\* the price history after the check: with a different observed price the
\* open entry has an end timestamp and a new open entry with the observed
\* price is the last one, with an equal price the history is the same
PriceTracked(t) ==
    LET old      == HistoryRead(t)
        new      == Precios_producto'
        p        == turn[t].producto
        observed == Item(t).unit_price
    IN  IF CurrentIn(old, p) # observed
        THEN /\ Len(new) = Len(old) + 1
             /\ \A i \in 1..Len(old) :
                    IF i \in OpenIn(old, p)
                    THEN /\ new[i].vigente_hasta # NULL
                         /\ new[i] = [old[i] EXCEPT
                                        !.vigente_hasta = new[i].vigente_hasta]
                    ELSE new[i] = old[i]
             /\ new[Len(new)].producto_id = p
             /\ new[Len(new)].precio_unitario = observed
             /\ new[Len(new)].vigente_hasta = NULL
        ELSE new = old

\* C30: when the line of an existing product has been through the price
\* check, a new price entry was opened if and only if the observed unit
\* price differs from the current price: if it differs the open entry is
\* closed and a new open entry with the observed price is added, if it is
\* equal the price history is unchanged.
C30_PriceHistoryFollowsObservedPrice ==
    [][\A t \in Turns : PriceChecked(t) => PriceTracked(t)]_vars

\* processSaleWithPricing is about to read the current price of an existing
\* product that has no open price-history entry
NoOpenPrice(t) ==
    /\ turn[t].pc = "get_price"
    /\ OpenPrices(turn[t].producto) = {}

\* C31: when the line of an existing product with no open price entry is
\* processed and the store answers the price read, the line goes on (the
\* turn does not end in an extraction error) towards opening a new entry
\* with the observed price.
C31_UnpricedProductLineSucceeds ==
    [][\A t \in Turns :
        (NoOpenPrice(t) /\ turn'[t] # turn[t] /\ failures' = failures)
        => (turn'[t].pc # "respond" /\ ~turn'[t].result.error)]_vars


\* autoCreateProduct has returned the id of the product it created and
\* processSaleWithPricing goes on to the sale detail
AutoCreated(t) ==
    /\ turn[t].pc = "ins_price0"
    /\ turn'[t].pc = "ins_detalle"

\* the price-history entries of a product
PricesOf(history, productoId) ==
    {i \in 1..Len(history) : history[i].producto_id = productoId}

\* C32: when autoCreateProduct reports success, the new product has exactly
\* one price-history entry, which is open and carries the unit price of the
\* sale line.
C32_AutoCreatedProductHasOnePrice ==
    [][\A t \in Turns :
        AutoCreated(t) =>
            LET entries == PricesOf(Precios_producto', turn[t].producto)
            IN  /\ Cardinality(entries) = 1
                /\ \A i \in entries :
                      /\ Precios_producto'[i].vigente_hasta = NULL
                      /\ Precios_producto'[i].precio_unitario = Item(t).unit_price]_vars


\* the checks the claim lists for a declared sale, each on its own
HasNoItems(sale) == sale.items = <<>>

HasBadItem(sale) ==
    \E i \in DOMAIN sale.items :
        \/ ~(sale.items[i].quantity > 0)
        \/ ~(sale.items[i].unit_price > 0)
        \/ Len(sale.items[i].product_name) = 0

HasBadTotal(sale) == ~(sale.total > 0)

\* the reason the first failing check reports, "" when none fails
FirstFailing(sale) ==
    CASE HasNoItems(sale)  -> "No items in sale"
      [] ~HasNoItems(sale) /\ HasBadItem(sale) -> "Invalid item data"
      [] ~HasNoItems(sale) /\ ~HasBadItem(sale) /\ HasBadTotal(sale)
                           -> "Invalid total amount"
      [] OTHER             -> ""

\* the oracle's reply of the turn declared sale data and was examined
DeclaredSale(t) ==
    /\ turn[t].pc \notin {"idle", "extract"}
    /\ turn[t].reply.kind = "sale"

\* C33: a reply that declares sale data and has no line items, an item with
\* quantity <= 0, unit price <= 0 or an empty product name, or a total <= 0
\* is rejected with nothing persisted, and the reported reason is that of
\* the first failing check in this order.
C33_ValidationOrder ==
    \A t \in Turns :
        (DeclaredSale(t) /\ FirstFailing(turn[t].reply.sale) # "")
        => /\ ~turn[t].result.extracted
           /\ turn[t].result.reason = FirstFailing(turn[t].reply.sale)
           /\ tables = turn[t].before

\* a returned turn whose reply had an invalid item and an invalid total was
\* rejected for the item, while the store holds an earlier sale
C33_Witness ==
    \E t \in Turns :
        /\ DeclaredSale(t)
        /\ turn[t].pc = "done"
        /\ HasBadItem(turn[t].reply.sale)
        /\ HasBadTotal(turn[t].reply.sale)
        /\ turn[t].result.reason = "Invalid item data"
        /\ Ventas # {}


\* what the object returned by processConversation (lines 176-182) tells
\* its caller of the extraction and of the session; the response text is
\* the oracle's
ReturnOf(t) ==
    [dataExtracted |-> turn[t].result.extracted, context |-> lastSaleId[t]]

\* what a turn returns in which no transaction was recognised
PlainReturn(t) ==
    [dataExtracted |-> FALSE, context |-> turn[t].sessionBefore]

\* the turn has returned after its sale write failed behind the header
\* insert, and the header is still in the store
WriteFailed(t) ==
    /\ turn[t].pc = "done"
    /\ turn[t].result.error
    /\ turn[t].saleId # NULL
    /\ Headers(turn[t].saleId) # {}

\* C34: a turn whose sale write failed after the header insert does not
\* return to its caller what a turn without a recognised transaction
\* returns while rows of the sale remain in the store.
C34_WriteFailureIsReported ==
    \A t \in Turns : WriteFailed(t) => ReturnOf(t) # PlainReturn(t)


\* the sales of the tenant and calendar day of a sale record that carry its
\* daily ordinal, other than the record itself
SameOrdinal(saleData) ==
    {v \in Ventas : /\ v.venta_id # saleData.venta_id
                    /\ v.usuario_id = saleData.usuario_id
                    /\ Day(v.fecha_hora) = Day(saleData.fecha_hora)
                    /\ v.orden_diario = saleData.orden_diario}

\* createSaleWithDetails is about to insert a header whose ordinal another
\* creation of the tenant's day has taken since it was computed
Collides(t) ==
    /\ call[t].pc = "ins_sale"
    /\ SameOrdinal(call[t].saleData) # {}

\* the creation is back at the computation of the ordinal
Recomputes(t) == call[t].pc = "last_order"

\* the header of the creation is stored with an ordinal of its own
StoredFresh(t) ==
    \E v \in Ventas : /\ v.venta_id = call[t].saleData.venta_id
                      /\ SameOrdinal(v) = {}

\* C35: when a creation collides with another one of the same tenant and
\* day on the daily ordinal, its next step either computes the ordinal
\* again or stores the header with an ordinal no other sale of that day
\* carries; it neither fails nor stores the taken ordinal.
C35_CollisionIsRetried ==
    [][\A t \in Turns :
        (Collides(t) /\ call'[t] # call[t])
        => (Recomputes(t)' \/ StoredFresh(t)')]_vars


\* customer names an oracle reply can carry: two that are equal ignoring
\* case, and one with the character "_"
sAna == <<"A", "n", "a">>
sana == <<"a", "n", "a">>
sA_a == <<"A", "_", "a">>

CustomerNames == {sAna, sana, sA_a}

\* the replies that declare one valid line of "Pan", no payment and a customer
CustomerReplies ==
    {[r EXCEPT !.sale.customer = c] : r \in SaleReplies, c \in CustomerNames}

\* sales with and without a customer, one turn after the other
NextCust ==
    \/ \E u \in Users : Quiet /\ StartTurn(1, u, PlainInput)
    \/ \E r \in CustomerReplies : OracleReply(1, r)
    \/ CustomerSearch(1) \/ CustomerInsert(1)
    \/ SaleStep(1)

SpecCust == Init /\ [][NextCust]_vars

\* two names are equal ignoring case
EqualIgnoringCase(a, b) == toLowerCase(a) = toLowerCase(b)

\* the customers of a tenant whose name equals a name ignoring case
Namesakes(customers, userId, name) ==
    {i \in 1..Len(customers) :
        /\ customers[i].usuario_id = userId
        /\ EqualIgnoringCase(customers[i].nombre, name)}

\* getOrCreateCustomer has returned an id to saveSaleData, every request of
\* it answered
Resolved(t) ==
    /\ turn[t].pc \in {"cust_search", "cust_insert"}
    /\ turn'[t].pc = "methods"
    /\ failures' = failures

\* the resolution returned an existing namesake and created nothing, or
\* there was none and it returned the customer it created; one namesake is
\* left
ResolvedRight(t) ==
    LET name == turn[t].reply.sale.customer
        u    == turn[t].userId
        old  == Namesakes(Clientes, u, name)
        id   == turn'[t].clienteId
    IN  /\ IF old # {}
           THEN /\ Clientes' = Clientes
                /\ \E i \in old : Clientes[i].cliente_id = id
           ELSE /\ Len(Clientes') = Len(Clientes) + 1
                /\ SubSeq(Clientes', 1, Len(Clientes)) = Clientes
                /\ Clientes'[Len(Clientes')] =
                       [cliente_id |-> id, usuario_id |-> u, nombre |-> name]
        /\ Cardinality(Namesakes(Clientes', u, name)) = 1

\* C36: resolving a customer name for a tenant returns the id of the
\* tenant's existing customer whose name equals it ignoring case and
\* creates a customer only when there is none, so that resolving names
\* equal ignoring case one after the other leaves exactly one such customer.
C36_CustomerResolvedIgnoringCase ==
    [][\A t \in Turns : Resolved(t) => ResolvedRight(t)]_vars


\* rule 3: the name contains the phrase or the phrase contains the name
SubstringMatches ==
    MethodsBy([i \in 1..Len(matching.availableMethods) |->
                 \/ includes(toLowerCase(matching.availableMethods[i].nombre), Phrase)
                 \/ includes(Phrase, toLowerCase(matching.availableMethods[i].nombre))])

\* C37: matchPaymentMethod returns null or the id of a method of the
\* supplied list that one of the three rules selects for a non-empty
\* normalized phrase; an empty or whitespace-only phrase resolves to null
\* whatever the list.
C37_NeverGuesses ==
    matching.called
    => /\ \/ matching.metodo_id = NULL
          \/ /\ Phrase # <<>>
             /\ matching.metodo_id
                    \in ExactMatches \cup SynonymMatches \cup SubstringMatches
       /\ Phrase = <<>> => matching.metodo_id = NULL


\* requests to DELETE /:saleId whose cancelSale calls interleave between
\* the ownership check and the update
NextRace ==
    \/ \E t \in Turns, u \in Users, saleId \in 1..MaxTurns :
          Receive(t, "DELETE /:saleId", u, saleId, NoBody)
    \/ \E t \in Turns : RouteCancelFetch(t) \/ RouteCancelUpdate(t)
    \/ Tick

SpecRace == InitConc /\ [][NextRace]_vars

\* the cancelSale call of the request reported a successful cancellation
CancelSucceeded(t) ==
    /\ req[t].route = "DELETE /:saleId"
    /\ req[t].pc = "done"
    /\ req[t].status = 200

\* C38: two cancelSale calls on the same sale never both report a
\* successful cancellation, however their ownership checks and updates
\* interleave.
C38_OneCancellationSucceeds ==
    \A s, t \in Turns :
        (s # t /\ req[s].saleId = req[t].saleId)
        => ~(CancelSucceeded(s) /\ CancelSucceeded(t))


\* the store refuses the cancellation the turn asks for: no sale has the
\* id and the tenant that dbHelpers.cancelSale is given, or it is voided
StoreRefuses(t) ==
    /\ turn[t].pc = "cancel_fetch"
    /\ \A v \in Ventas :
          (v.venta_id = CancelSaleArg(t) /\ v.usuario_id = CancelUserArg(t))
          => v.anulada

\* the store-level cancellation of the turn fails in this step: the store
\* refuses it, or one of its two requests fails
CancellationFails(t) ==
    /\ turn[t].pc \in {"cancel_fetch", "cancel_update"}
    /\ turn'[t] # turn[t]
    /\ (StoreRefuses(t) \/ failures' # failures)

\* C39: when the store-level cancellation of a turn fails, the turn ends in
\* an error and the session's lastSaleId is what the caller supplied,
\* neither cleared nor overwritten.
C39_FailedCancelKeepsSession ==
    [][\A t \in Turns :
        CancellationFails(t)
        => /\ turn'[t].pc = "error"
           /\ lastSaleId'[t] = turn[t].sessionBefore]_vars

\* a turn in which the oracle asked to cancel a sale of another tenant has
\* thrown, every store request answered, and the session still names the
\* sale recorded before
C39_Witness ==
    \E t \in Turns :
        /\ turn[t].pc = "error"
        /\ turn[t].via = "oracle"
        /\ turn[t].target # NULL
        /\ ~turn[t].result.extracted
        /\ failures = 0
        /\ lastSaleId[t] # NULL
        /\ lastSaleId[t] = turn[t].sessionBefore
        /\ \E v \in Ventas : v.venta_id = turn[t].target /\ ~v.anulada


\* bodies of edit requests that set the customer reference
CustomerBodies ==
    {[cliente_id |-> 1], [cliente_id |-> 2],
     [cliente_id |-> 2, notas |-> <<"n">>]}

\* The store after tenant 101 has sold one "Pan", when each tenant has one
\* customer: customer 1 is of tenant 101, customer 2 of tenant 102.
InitOwn ==
    /\ Ventas = {[NoSaleData EXCEPT !.venta_id = 1, !.usuario_id = 101,
                                    !.total_venta = 1, !.fecha_hora = 1]}
    /\ Detalle_ventas = <<[venta_id |-> 1, producto_id |-> 1, precio_unitario |-> 1,
                           cantidad |-> 1, subtotal |-> 1, producto_alt |-> sPan]>>
    /\ Pagos_venta = <<>>
    /\ Productos = <<[producto_id |-> 1, usuario_id |-> 101, nombre |-> sPan,
                      auto_creado |-> TRUE]>>
    /\ Precios_producto = <<[producto_id |-> 1, precio_unitario |-> 1,
                             vigente_desde |-> 1, vigente_hasta |-> NULL]>>
    /\ Clientes = <<[cliente_id |-> 1, usuario_id |-> 101, nombre |-> sAna],
                    [cliente_id |-> 2, usuario_id |-> 102, nombre |-> sana]>>
    /\ matching = NoMatching
    /\ turn = [t \in Turns |-> IdleTurn]
    /\ call = [t \in Turns |-> IdleCall]
    /\ req = [t \in Turns |-> IdleReq]
    /\ lastSaleId = [t \in Turns |-> NULL]
    /\ clock = 1
    /\ started = 0
    /\ requests = 0
    /\ failures = 0

\* edit requests that set the customer of a sale, served one after the other
NextOwn ==
    \/ \E route \in EditRoutes, u \in Users, saleId \in 1..MaxTurns,
          body \in CustomerBodies :
         ReqQuiet /\ Receive(1, route, u, saleId, body)
    \/ PutFetch(1) \/ PutClient(1) \/ PutUpdate(1)
    \/ UpdateSale(1)
    \/ Tick

SpecOwn == InitOwn /\ [][NextOwn]_vars

\* the tenants that own a customer id
OwnersOf(clienteId) ==
    {Clientes[i].usuario_id :
        i \in {j \in 1..Len(Clientes) : Clientes[j].cliente_id = clienteId}}

\* an edit request that set a customer reference was answered 200
CustomerEdited(t) ==
    /\ req[t].route \in EditRoutes
    /\ req[t].pc = "done"
    /\ req[t].status = 200
    /\ "cliente_id" \in DOMAIN req[t].body

\* C40: an edit that sets the customer reference of a sale succeeds only if
\* the customer belongs to the tenant of the sale, and no sale references a
\* customer of another tenant.
C40_CustomerOfSameTenant ==
    /\ \A t \in Turns :
          CustomerEdited(t) => OwnersOf(req[t].body.cliente_id) = {req[t].userId}
    /\ \A v \in Ventas :
          v.cliente_id # NULL => OwnersOf(v.cliente_id) = {v.usuario_id}

=============================================================================
